---- MODULE Spec2Model ----
(***************************************************************************)
(* Trinetra-GNN: the monitoring agent (XAI-agentic and gnn-agent-monitor), *)
(* its batch processor and rolling z-score detector, and the backend's     *)
(* rate-limited, cached NVD lookups.                                       *)
(*                                                                         *)
(* Conventions.                                                            *)
(*  - Sequences are 1-based; node id i of the code is position i+1.        *)
(*  - Scores are integers: the feature rows of FeatureRows are chosen so   *)
(*    that every mean squared error is a whole number.                     *)
(*  - The clock is in whole seconds.                                       *)
(***************************************************************************)
EXTENDS Integers, Sequences, FiniteSets, TLC

\* ------------------------------------------------------------------ bounds
MaxNodes == 2
MaxBatch == 2
MaxCycles == 2
AgentWindow == 3
DetectorWindow == 11
MaxScores == 2
MaxTime == 80
MaxCalls == 10
MaxLookups == 4
MaxRisks == 4
MaxGraphNodes == 5
MaxFlagged == 4
MaxTopK == 4
MaxExtraHot == 2
MaxAnomalous == 22
MaxRiskCalls == 2
MaxWindow == 3
MaxVector == 4
MaxArrived == 6
MaxIterations == 3
MaxMemory == 2
MaxRaceLookups == 2
MaxRaceTime == 7200

\* ------------------------------------------------------- program constants
MinSamples == 10
ZSCORE_THRESHOLD == 3
RATE_LIMIT_CALLS == 5
RATE_LIMIT_WINDOW == 30
CVE_CACHE_TTL == 86400
FAILED_LOOKUP_TTL == 3600
cache_timeout == 86400
WINDOW_SIZE == 100
DetailLimit == 20
CorrelateLimit == 20
PathsTopK == 5
AGENT_MEMORY_SIZE == 50

\* the feature rows a snapshot or a reconstruction is made of
FeatureRows == {<<0, 0>>, <<1, 1>>}
\* the scores a direct caller of the detector passes
ScoreVals == {0, 1}

VARIABLES
    variant,        \* which agent: "xai" (XAI-agentic) or "monitor" (gnn-agent-monitor)
    batch_size,     \* BatchProcessor.batch_size (config.BATCH_SIZE)
    is_running,     \* GNNAgent.is_running
    iteration,      \* GNNAgent.iteration
    pc,             \* position of run() / _monitor_cycle()
    graph_data,     \* the cycle's snapshot (local of _monitor_cycle)
    batch_results,  \* the cycle's process_graph result (local of _monitor_cycle)
    window_size,    \* the deque's maxlen (config.WINDOW_SIZE)
    window,         \* ZScoreAnomalyDetector.window (deque, maxlen = window_size)
    errors_logged,  \* number of logger.error calls made by run / _monitor_cycle
    failed_step,    \* the step of the current cycle that raised, or "none"
    window_before,  \* the window as it was when the current cycle started
    failed_batch,   \* the batch (1-based) in which the scorer raised, or 0
    exit_cause,     \* why run() left its loop, or "none"
    detect_result,  \* what the last direct detect_anomalies call returned
    now,            \* time.time(), in seconds
    api_call_times, \* cve_scorer.api_call_times
    rl,             \* per caller of rate_limit_check: its position and locals
    admitted,       \* when the calls still inside the window were let through
    calls_started,  \* number of rate_limit_check calls begun
    _cache,         \* SimpleCache._cache of the backend's global cache
    _expiry,        \* SimpleCache._expiry
    cve_cache,      \* CVEAnalyzer.cve_cache
    external_calls, \* number of queries sent to the NVD
    last_query,     \* per lookup key, the last direct lookup that queried the NVD
    last_lookup,    \* what the last lookup did and returned
    lookups,        \* number of lookups made
    node_to_software, \* CVEAnalyzer.node_to_software
    CVE_DETAILS_CACHE, \* app.CVE_DETAILS_CACHE
    last_call,      \* the last call of one of the pure functions: arguments and result
    G,              \* GraphAnalyzer.G, the topology view
    run_calls,      \* how many times the caller invokes run()
    tasks,          \* per invocation of run(): its position, locals and outcome
    memory_size,    \* the memory deque's maxlen (config.AGENT_MEMORY_SIZE)
    memory,         \* GNNAgent.memory: the `iteration` of each entry held
    session,        \* GroqClient.session: "none" or "open"
    logged,         \* the kinds of message the logger has been given
    reports,        \* the reports _generate_report has produced
    appended,       \* the `iteration` of every entry _update_memory ever appended
    outcomes,       \* how each cycle begun so far ended, in the order they ended
    lk              \* per thread inside get_cve_score_from_nvd: its position and locals

agentVars == <<variant, batch_size, is_running, iteration, pc, graph_data,
               batch_results, errors_logged, failed_step, failed_batch,
               window_before, exit_cause>>
detectorVars == <<window_size, window, detect_result>>
limiterVars == <<now, api_call_times, rl, admitted, calls_started>>
cacheVars == <<_cache, _expiry, cve_cache, external_calls, last_query,
               last_lookup, lookups, node_to_software, CVE_DETAILS_CACHE>>
analysisVars == <<last_call, G>>
lifecycleVars == <<run_calls, tasks, memory_size, memory, session, logged, reports,
                   appended, outcomes>>
backendVars == <<limiterVars, cacheVars, analysisVars>>
vars == <<agentVars, detectorVars, limiterVars, cacheVars, analysisVars, lifecycleVars, lk>>

\* the callers of rate_limit_check
Callers == {1}
\* what the clock may advance by between two steps
TimeSteps == {15, 16}
\* the CVE ids looked up through get_cve_score_from_nvd
CveIds == {"CVE-2021-41773"}
\* the software looked up through _search_cves_for_software
Products == {[name |-> "apache", version |-> "2.4.49"]}
\* `cache_key = f"nvd_cve_{cve_id}"`
cve_cache_key(cve_id) == <<"nvd_cve", cve_id>>
\* `cache_key = f"{software_info['name']}:{software_info.get('version', 'any')}"`
software_cache_key(software_info) == <<software_info.name, software_info.version>>
LookupKeys ==
    {cve_cache_key(id) : id \in CveIds} \cup {software_cache_key(sw) : sw \in Products}
\* an empty dict
EmptyDict == [k \in {} |-> 0]
\* what the clock may advance by between two lookups
LookupSteps == {1800, 3600, 84600}

NoGraph == [num_nodes |-> 0, x |-> <<>>]
IdleCaller == [pc |-> "idle", now |-> 0, wake |-> 0, appends |-> 0]
NoResult == [kind |-> "none"]
\* `self.G = None`
NoView == [built |-> FALSE, nodes |-> {}, edges |-> {}]
\* the invocations of run()
Runs == {1, 2}
\* the threads that call get_cve_score_from_nvd at the same time
Lookers == {1, 2}
\* a thread outside get_cve_score_from_nvd
IdleLooker == [pc |-> "idle", calls |-> 0, value |-> NoResult, ttl |-> 0,
               wrote |-> FALSE, written |-> NoResult, expiry |-> 0, raised |-> FALSE]
\* an invocation of run() that has not been made
IdleTask == [pc |-> "idle", cause |-> "none", outcome |-> "none", stopped_at |-> "none",
             graph_data |-> [num_nodes |-> 0, edges |-> {}, scores |-> <<>>],
             view |-> NoView,
             mutated |-> FALSE, cleanup_failed |-> FALSE]
\* GNNAgent.__init__ as far as run() and the memory go, run() never invoked
NoRun ==
    /\ run_calls = 0
    /\ tasks = [r \in Runs |-> IdleTask]
    /\ memory_size = AGENT_MEMORY_SIZE
    /\ memory = <<>>
    /\ session = "none"
    /\ logged = {}
    /\ reports = <<>>
    /\ appended = <<>>
    /\ outcomes = <<>>

\* ------------------------------------------------------------- sequences
RECURSIVE SumSeq(_)
SumSeq(s) == IF s = <<>> THEN 0 ELSE Head(s) + SumSeq(Tail(s))

Last(s, k) == IF Len(s) > k THEN SubSeq(s, Len(s) - k + 1, Len(s)) ELSE s

\* ---------------------------------------------------------- the scorer
\* torch.mean((x - x_recon) ** 2, dim=1) for one row (the division is exact
\* for the rows of FeatureRows)
RowError(xi, ri) ==
    SumSeq([f \in 1..Len(xi) |-> (xi[f] - ri[f]) * (xi[f] - ri[f])]) \div Len(xi)

\* GNNAnomalyDetector.compute_anomaly_scores

compute_anomaly_scores(x, x_recon) == [i \in 1..Len(x) |-> RowError(x[i], x_recon[i])]

\* what the model may return for a feature matrix: one row per input row
Reconstructions(x) == [1..Len(x) -> FeatureRows]

\* ------------------------------------------------------- the detector
\* an update that keeps the oldest scores when the window overflows
update_keep_oldest(win, scores, maxlen) ==
    SubSeq(win \o scores, 1, IF Len(win \o scores) > maxlen THEN maxlen
                              ELSE Len(win \o scores))

\* deque(maxlen=window_size).extend(scores)
update(win, scores, maxlen) == Last(win \o scores, maxlen)

SumSq(s) == SumSeq([i \in 1..Len(s) |-> s[i] * s[i]])

\* n^2 * variance of the window: n*sum(x^2) - sum(x)^2
VarTerm(win) == Len(win) * SumSq(win) - SumSeq(win) * SumSeq(win)

\* n * |score - mean|
DevTerm(win, s) ==
    LET d == Len(win) * s - SumSeq(win) IN IF d < 0 THEN 0 - d ELSE d

\* z > threshold, z = |s - mean| / std.  With std = 0 the code divides by 1e-6,
\* so any score that differs from the mean (by at least 1/n, scores being
\* whole numbers) has z >= 1e6/n > threshold.
ZExceeds(win, s) ==
    IF VarTerm(win) > 0
    THEN DevTerm(win, s) * DevTerm(win, s)
            > ZSCORE_THRESHOLD * ZSCORE_THRESHOLD * VarTerm(win)
    ELSE DevTerm(win, s) > 0

WarmingUp(win) == Len(win) < MinSamples

\* detect_anomalies as it would be without the warm-up return
detect_anomalies_no_warmup(win, scores) ==
    [anomalies |-> [i \in 1..Len(scores) |-> ZExceeds(win, scores[i])],
     z_kind |-> "z",
     z_scores |-> [i \in 1..Len(scores) |->
                       [dev |-> DevTerm(win, scores[i]), var |-> VarTerm(win)]]]

\* ZScoreAnomalyDetector.detect_anomalies: the boolean mask and the z-scores.
\* A z-score is held as [dev, var]: z = dev / sqrt(var), var = 0 standing
\* for the 1e-6 the code substitutes for a zero deviation.
detect_anomalies(win, scores) ==
    IF WarmingUp(win)
    THEN [anomalies |-> [i \in 1..Len(scores) |-> FALSE],
          z_kind |-> "raw",
          z_scores |-> scores]
    ELSE [anomalies |-> [i \in 1..Len(scores) |-> ZExceeds(win, scores[i])],
          z_kind |-> "z",
          z_scores |-> [i \in 1..Len(scores) |->
                            [dev |-> DevTerm(win, scores[i]), var |-> VarTerm(win)]]]

\* The threshold in force: the detector's `threshold` attribute, which the
\* constructor sets from config.ZSCORE_THRESHOLD and nothing changes, and
\* which the agent reports as analysis['threshold'].  `finite` is FALSE for
\* an infinite threshold.
threshold_used == [finite |-> TRUE, value |-> ZSCORE_THRESHOLD]

\* np.where(anomalies)[0], as 0-based node ids
Where(mask) == {i - 1 : i \in {j \in 1..Len(mask) : mask[j]}}

\* ---------------------------------------------------- the batch processor
Min(a, b) == IF a < b THEN a ELSE b

\* the number of iterations of range(0, num_nodes, batch_size)
NumBatches(n, b) == (n + b - 1) \div b

\* torch.arange(batch_idx, batch_end), as a set of 0-based node ids
batch_nodes(batch_idx, n, b) == batch_idx .. (Min(batch_idx + b, n) - 1)

\* BatchProcessor._extract_subgraph: "simplified - using full graph"
extract_subgraph(x, nodes) == x

\* one pass of the loop body: the model is run on what _extract_subgraph
\* returned (x_recon is the model's answer for the whole matrix x)
batch_scores(x, x_recon, nodes) ==
    compute_anomaly_scores(extract_subgraph(x, nodes), x_recon)

RECURSIVE CatBatches(_, _, _, _, _, _)
\* torch.cat(all_scores) over the batches that start at batch_idx, ..., and
\* stop before batch number `upto` + 1 (counting from `j`)
CatBatches(x, x_recon, n, b, j, upto) ==
    IF j > upto THEN <<>>
    ELSE batch_scores(x, x_recon, batch_nodes((j - 1) * b, n, b))
            \o CatBatches(x, x_recon, n, b, j + 1, upto)

\* process_graph as it would be if the detector were fed after every batch
process_graph_eager(gd, x_recon, failAt, win, b, maxlen) ==
    LET n == gd.num_nodes
        k == NumBatches(n, b)
        done == CatBatches(gd.x, x_recon, n, b, 1, IF failAt > 0 THEN failAt - 1 ELSE k)
        w2 == update(win, done, maxlen)
        det == detect_anomalies(w2, done)
    IN  IF failAt > 0
        THEN [raised |-> TRUE, window |-> w2, results |-> NoResult]
        ELSE [raised |-> FALSE, window |-> w2,
              results |-> [kind |-> "ok", scores |-> done, x_recon |-> x_recon,
                           z_kind |-> det.z_kind, z_scores |-> det.z_scores,
                           anomalies |-> det.anomalies,
                           anomalous_nodes |-> Where(det.anomalies),
                           batch_count |-> k]]

\* BatchProcessor.process_graph.  failAt = j > 0: the scorer raises in batch j
\* and the exception leaves the method; failAt = 0: every batch is scored.
process_graph(gd, x_recon, failAt, win, b, maxlen) ==
    LET n == gd.num_nodes
        k == NumBatches(n, b)
        scores == CatBatches(gd.x, x_recon, n, b, 1, k)
        w2 == update(win, scores, maxlen)
        det == detect_anomalies(w2, scores)
    IN  IF failAt > 0
        THEN [raised |-> TRUE, window |-> win, results |-> NoResult]
        ELSE [raised |-> FALSE, window |-> w2,
              results |-> [kind |-> "ok", scores |-> scores, x_recon |-> x_recon,
                           z_kind |-> det.z_kind, z_scores |-> det.z_scores,
                           anomalies |-> det.anomalies,
                           anomalous_nodes |-> Where(det.anomalies),
                           batch_count |-> k]]

\* ------------------------------------------------------------ the agent
Snapshots ==
    UNION {{[num_nodes |-> n, x |-> x] : x \in [1..n -> FeatureRows]} : n \in 1..MaxNodes}

\* the steps of _monitor_cycle after the snapshot and the scoring
LaterSteps == <<"analyze", "update_graph", "reason", "act", "memory", "report">>

StepAfter(p) ==
    IF p = "report" THEN "sleep"
    ELSE LaterSteps[(CHOOSE i \in 1..Len(LaterSteps) : LaterSteps[i] = p) + 1]

Init ==
    /\ variant \in {"xai", "monitor"}
    /\ batch_size \in 1..MaxBatch
    /\ is_running = FALSE
    /\ iteration = 0
    /\ pc = "idle"
    /\ graph_data = NoGraph
    /\ batch_results = NoResult
    /\ window_size = AgentWindow
    /\ window = <<>>
    /\ errors_logged = 0
    /\ failed_step = "none"
    /\ failed_batch = 0
    /\ window_before = <<>>
    /\ exit_cause = "none"
    /\ detect_result = NoResult
    /\ now = 0
    /\ api_call_times = <<>>
    /\ rl = [c \in Callers |-> IdleCaller]
    /\ admitted = <<>>
    /\ calls_started = 0
    /\ _cache = EmptyDict
    /\ _expiry = EmptyDict
    /\ cve_cache = EmptyDict
    /\ external_calls = 0
    /\ last_query = [k \in LookupKeys |-> NoResult]
    /\ last_lookup = NoResult
    /\ lookups = 0
    /\ node_to_software = EmptyDict
    /\ CVE_DETAILS_CACHE = EmptyDict
    /\ NoRun
    /\ lk = [c \in Lookers |-> IdleLooker]
    /\ last_call = NoResult
    /\ G = NoView

\* GNNAgent.run up to the loop
Run ==
    /\ pc = "idle"
    /\ is_running' = TRUE
    /\ pc' = "loop"
    /\ UNCHANGED <<lk, lifecycleVars, variant, batch_size, iteration, graph_data, batch_results,
                   errors_logged, failed_step, failed_batch, window_before,
                   exit_cause, detectorVars, backendVars>>

\* `while self.is_running:` and the first statement of _monitor_cycle
StartCycle ==
    /\ pc = "loop"
    /\ is_running
    /\ iteration < MaxCycles
    /\ iteration' = iteration + 1
    /\ pc' = "snapshot"
    /\ graph_data' = NoGraph
    /\ batch_results' = NoResult
    /\ failed_step' = "none"
    /\ failed_batch' = 0
    /\ window_before' = window
    /\ UNCHANGED <<lk, lifecycleVars, variant, batch_size, is_running, errors_logged, exit_cause,
                   detectorVars, backendVars>>

\* An Exception raised by a step of the cycle.  XAI-agentic's _monitor_cycle
\* catches it, logs it and returns, and run goes on to its sleep;
\* gnn-agent-monitor's _monitor_cycle has no handler: run's `except
\* Exception` logs it and re-raises through the `finally` cleanup.
Raised(step, batch) ==
    /\ failed_step' = step
    /\ failed_batch' = batch
    /\ errors_logged' = errors_logged + 1
    /\ IF variant = "xai"
       THEN /\ pc' = "sleep"
            /\ exit_cause' = exit_cause
       ELSE /\ pc' = "cleanup"
            /\ exit_cause' = "cycle_exception"

GetSnapshot ==
    /\ pc = "snapshot"
    /\ \E gd \in Snapshots :
          /\ graph_data' = gd
          /\ pc' = "score"
    /\ UNCHANGED <<lk, lifecycleVars, variant, batch_size, is_running, iteration, batch_results,
                   errors_logged, failed_step, failed_batch, window_before,
                   exit_cause, detectorVars, backendVars>>

GetSnapshotRaises ==
    /\ pc = "snapshot"
    /\ Raised("snapshot", 0)
    /\ UNCHANGED <<lk, lifecycleVars, variant, batch_size, is_running, iteration, graph_data,
                   batch_results, window_before, detectorVars, backendVars>>

\* `await self.batch_processor.process_graph(...)`
ProcessGraph ==
    /\ pc = "score"
    /\ \E x_recon \in Reconstructions(graph_data.x) :
          LET r == process_graph(graph_data, x_recon, 0, window, batch_size, window_size)
          IN  /\ window' = r.window
              /\ batch_results' = r.results
    /\ pc' = "analyze"
    /\ UNCHANGED <<lk, lifecycleVars, variant, batch_size, is_running, iteration, graph_data,
                   errors_logged, failed_step, failed_batch, window_before,
                   exit_cause, window_size, detect_result, backendVars>>

ProcessGraphRaises ==
    /\ pc = "score"
    /\ \E x_recon \in Reconstructions(graph_data.x) :
       \E failAt \in 1..NumBatches(graph_data.num_nodes, batch_size) :
          LET r == process_graph(graph_data, x_recon, failAt, window, batch_size, window_size)
          IN  /\ window' = r.window
              /\ batch_results' = r.results
              /\ Raised("score", failAt)
    /\ UNCHANGED <<lk, lifecycleVars, variant, batch_size, is_running, iteration, graph_data,
                   window_before, window_size, detect_result, backendVars>>

\* one of the later steps of the cycle returns
StepReturns ==
    /\ pc \in {LaterSteps[i] : i \in 1..Len(LaterSteps)}
    /\ pc' = StepAfter(pc)
    /\ UNCHANGED <<lk, lifecycleVars, variant, batch_size, is_running, iteration, graph_data,
                   batch_results, errors_logged, failed_step, failed_batch,
                   window_before, exit_cause, detectorVars, backendVars>>

\* one of the later steps of the cycle raises
StepRaises ==
    /\ pc \in {LaterSteps[i] : i \in 1..Len(LaterSteps)}
    /\ Raised(pc, 0)
    /\ UNCHANGED <<lk, lifecycleVars, variant, batch_size, is_running, iteration, graph_data,
                   batch_results, window_before, detectorVars, backendVars>>

\* `await asyncio.sleep(self.config.UPDATE_INTERVAL)` returns
Sleep ==
    /\ pc = "sleep"
    /\ pc' = "loop"
    /\ graph_data' = NoGraph
    /\ batch_results' = NoResult
    /\ UNCHANGED <<lk, lifecycleVars, variant, batch_size, is_running, iteration, errors_logged,
                   failed_step, failed_batch, window_before, exit_cause,
                   detectorVars, backendVars>>

\* the `finally:` of run: _cleanup closes the client, then run is left
Cleanup ==
    /\ pc = "cleanup"
    /\ pc' = "exited"
    /\ UNCHANGED <<lk, lifecycleVars, variant, batch_size, is_running, iteration, graph_data,
                   batch_results, errors_logged, failed_step, failed_batch,
                   window_before, exit_cause, detectorVars, backendVars>>

Next ==
    \/ Run
    \/ StartCycle
    \/ GetSnapshot
    \/ GetSnapshotRaises
    \/ ProcessGraph
    \/ ProcessGraphRaises
    \/ StepReturns
    \/ StepRaises
    \/ Sleep
    \/ Cleanup

Spec == Init /\ [][Next]_vars

\* ------------------------------------------- the detector, called directly
ScoreVectors == UNION {[1..n -> ScoreVals] : n \in 1..MaxScores}

InitDetector ==
    /\ variant = "monitor"
    /\ batch_size = 1
    /\ is_running = FALSE
    /\ iteration = 0
    /\ pc = "idle"
    /\ graph_data = NoGraph
    /\ batch_results = NoResult
    /\ window_size = DetectorWindow
    /\ window = <<>>
    /\ errors_logged = 0
    /\ failed_step = "none"
    /\ failed_batch = 0
    /\ window_before = <<>>
    /\ exit_cause = "none"
    /\ detect_result = NoResult
    /\ now = 0
    /\ api_call_times = <<>>
    /\ rl = [c \in Callers |-> IdleCaller]
    /\ admitted = <<>>
    /\ calls_started = 0
    /\ _cache = EmptyDict
    /\ _expiry = EmptyDict
    /\ cve_cache = EmptyDict
    /\ external_calls = 0
    /\ last_query = [k \in LookupKeys |-> NoResult]
    /\ last_lookup = NoResult
    /\ lookups = 0
    /\ node_to_software = EmptyDict
    /\ CVE_DETAILS_CACHE = EmptyDict
    /\ NoRun
    /\ lk = [c \in Lookers |-> IdleLooker]
    /\ last_call = NoResult
    /\ G = NoView

\* ZScoreAnomalyDetector.update(scores)
DetectorUpdate ==
    /\ \E scores \in ScoreVectors : window' = update(window, scores, window_size)
    /\ detect_result' = NoResult
    /\ UNCHANGED <<lk, lifecycleVars, agentVars, window_size, backendVars>>

\* ZScoreAnomalyDetector.detect_anomalies(scores)
DetectorDetect ==
    /\ \E scores \in ScoreVectors :
          LET det == detect_anomalies(window, scores)
          IN  detect_result' = [kind |-> "ok", scores |-> scores,
                                anomalies |-> det.anomalies,
                                z_kind |-> det.z_kind,
                                z_scores |-> det.z_scores,
                                threshold |-> threshold_used]
    /\ UNCHANGED <<lk, lifecycleVars, agentVars, window_size, window, backendVars>>

NextDetector ==
    \/ DetectorUpdate
    \/ DetectorDetect

SpecDetector == InitDetector /\ [][NextDetector]_vars

\* ------------------------------------------------- cve_scorer.rate_limit_check
\* `[t for t in api_call_times if now - t < RATE_LIMIT_WINDOW]`
recent_calls(times, t_now) ==
    SelectSeq(times, LAMBDA t : t_now - t < RATE_LIMIT_WINDOW)

\* min(api_call_times)
oldest_call(times) ==
    CHOOSE t \in {times[i] : i \in 1..Len(times)} :
        \A i \in 1..Len(times) : t <= times[i]

\* `wait_time = RATE_LIMIT_WINDOW - (now - oldest_call)`
wait_time(times, t_now) == RATE_LIMIT_WINDOW - (t_now - oldest_call(times))

\* rate_limit_check as it would be if the call were not recorded
record_call_dropped(times, t_now) == times

\* `api_call_times.append(now)`
record_call(times, t_now) == Append(times, t_now)

LongestStep == CHOOSE d \in TimeSteps : \A e \in TimeSteps : e <= d

InitBackend ==
    /\ InitDetector

\* the clock moves on, between calls or during a sleep: beside the sleep the
\* statements of rate_limit_check take no time
Advance ==
    /\ \A c \in Callers : rl[c].pc \in {"idle", "sleeping"}
    /\ \E d \in TimeSteps :
          /\ now + d <= MaxTime
          /\ now' = now + d
          /\ admitted' = recent_calls(admitted, now + d)
    /\ UNCHANGED <<lk, lifecycleVars, agentVars, detectorVars, analysisVars, cacheVars, api_call_times, rl, calls_started>>

\* rate_limit_check is entered: `now = time.time()`
RLBegin(c) ==
    /\ rl[c].pc = "idle"
    /\ calls_started < MaxCalls
    /\ now + RATE_LIMIT_WINDOW + 1 + LongestStep <= MaxTime
    /\ rl' = [rl EXCEPT ![c] = [pc |-> "prune", now |-> now, wake |-> 0, appends |-> 0]]
    /\ calls_started' = calls_started + 1
    /\ UNCHANGED <<lk, lifecycleVars, agentVars, detectorVars, analysisVars, cacheVars, now, api_call_times, admitted>>

\* the history is cut down to the calls of the last RATE_LIMIT_WINDOW seconds
RLPrune(c) ==
    /\ rl[c].pc = "prune"
    /\ api_call_times' = recent_calls(api_call_times, rl[c].now)
    /\ rl' = [rl EXCEPT ![c].pc = "check"]
    /\ UNCHANGED <<lk, lifecycleVars, agentVars, detectorVars, analysisVars, cacheVars, now, admitted, calls_started>>

\* `if len(api_call_times) >= RATE_LIMIT_CALLS:` up to the start of the sleep
RLCheck(c) ==
    /\ rl[c].pc = "check"
    /\ IF /\ Len(api_call_times) >= RATE_LIMIT_CALLS
          /\ wait_time(api_call_times, rl[c].now) > 0
       THEN rl' = [rl EXCEPT ![c].pc = "sleeping",
                             ![c].wake = now + wait_time(api_call_times, rl[c].now) + 1]
       ELSE rl' = [rl EXCEPT ![c].pc = "append"]
    /\ UNCHANGED <<lk, lifecycleVars, agentVars, detectorVars, analysisVars, cacheVars, now, api_call_times, admitted, calls_started>>

\* `time.sleep(wait_time + 0.1)` returns and `api_call_times = []`
RLWake(c) ==
    /\ rl[c].pc = "sleeping"
    /\ now >= rl[c].wake
    /\ api_call_times' = <<>>
    /\ rl' = [rl EXCEPT ![c].pc = "append"]
    /\ UNCHANGED <<lk, lifecycleVars, agentVars, detectorVars, analysisVars, cacheVars, now, admitted, calls_started>>

\* `api_call_times.append(now)` and the return: the call is let through
RLAppend(c) ==
    /\ rl[c].pc = "append"
    /\ api_call_times' = record_call(api_call_times, rl[c].now)
    /\ admitted' = Append(admitted, now)
    /\ rl' = [rl EXCEPT ![c].pc = "idle",
                        ![c].appends = rl[c].appends
                                       + (Len(api_call_times') - Len(api_call_times))]
    /\ UNCHANGED <<lk, lifecycleVars, agentVars, detectorVars, analysisVars, cacheVars, now, calls_started>>

NextLimiter ==
    \/ Advance
    \/ \E c \in Callers : RLBegin(c)
    \/ \E c \in Callers : RLPrune(c)
    \/ \E c \in Callers : RLCheck(c)
    \/ \E c \in Callers : RLWake(c)
    \/ \E c \in Callers : RLAppend(c)

SpecLimiter == InitBackend /\ [][NextLimiter]_vars

\* the clock runs and a thread inside rate_limit_check keeps being scheduled
FairLimiter ==
    /\ WF_vars(Advance)
    /\ \A c \in Callers :
          WF_vars(RLPrune(c) \/ RLCheck(c) \/ RLWake(c) \/ RLAppend(c))

SpecLimiterFair == InitBackend /\ [][NextLimiter]_vars /\ FairLimiter


\* ------------------------------------------------------- the CVE lookups
\* rate_limit_check as one call made at t_now: the history it leaves and the
\* time at which it returns
rate_limit_check(times, t_now) ==
    LET pruned == recent_calls(times, t_now)
    IN  IF Len(pruned) >= RATE_LIMIT_CALLS /\ wait_time(pruned, t_now) > 0
        THEN [times |-> record_call(<<>>, t_now),
              now |-> t_now + wait_time(pruned, t_now) + 1]
        ELSE [times |-> record_call(pruned, t_now), now |-> t_now]

Drop(d, key) == [k \in DOMAIN d \ {key} |-> d[k]]

\* SimpleCache.get at time t: whether a value is returned, the value, and the
\* two maps after the call
cache_get(c, e, key, t) ==
    IF key \in DOMAIN c
    THEN IF key \in DOMAIN e /\ t > e[key]
         THEN [found |-> FALSE, value |-> NoResult,
               cache |-> Drop(c, key), expiry |-> Drop(e, key)]
         ELSE [found |-> TRUE, value |-> c[key], cache |-> c, expiry |-> e]
    ELSE [found |-> FALSE, value |-> NoResult, cache |-> c, expiry |-> e]

\* SimpleCache.set(key, value, ttl) at time t, ttl given
cache_set(c, e, key, value, ttl, t) ==
    [cache |-> (key :> value) @@ c, expiry |-> (key :> (t + ttl)) @@ e]

\* the metrics of a CVE as the NVD may report them; scores in tenths
NvdMetrics ==
    { ("cvssMetricV31" :> [baseScore |-> 98, baseSeverity |-> "CRITICAL"])
        @@ ("cvssMetricV2" :> [baseScore |-> 75, baseSeverity |-> "HIGH"]),
      ("cvssMetricV2" :> [baseScore |-> 35, baseSeverity |-> "LOW"]),
      ("cvssMetricV2" :> [baseScore |-> 75, baseSeverity |-> "HIGH"]),
      EmptyDict }

\* what `requests.get` may do
NvdReplies ==
    {[kind |-> "response", status |-> 200, totalResults |-> 1, metrics |-> m] :
        m \in NvdMetrics}
    \cup {[kind |-> "response", status |-> 200, totalResults |-> 0, metrics |-> EmptyDict],
          [kind |-> "response", status |-> 404, totalResults |-> 0, metrics |-> EmptyDict],
          [kind |-> "response", status |-> 503, totalResults |-> 0, metrics |-> EmptyDict],
          [kind |-> "timeout", status |-> 0, totalResults |-> 0, metrics |-> EmptyDict],
          [kind |-> "exception", status |-> 0, totalResults |-> 0, metrics |-> EmptyDict]}

\* the score and severity read from the metrics: v3.1, then v3.0, then v2.0
cvss_data(metrics) ==
    IF "cvssMetricV31" \in DOMAIN metrics
    THEN [score |-> metrics["cvssMetricV31"].baseScore,
          severity |-> metrics["cvssMetricV31"].baseSeverity]
    ELSE IF "cvssMetricV30" \in DOMAIN metrics
    THEN [score |-> metrics["cvssMetricV30"].baseScore,
          severity |-> metrics["cvssMetricV30"].baseSeverity]
    ELSE IF "cvssMetricV2" \in DOMAIN metrics
    THEN [score |-> metrics["cvssMetricV2"].baseScore,
          severity |-> IF metrics["cvssMetricV2"].baseScore >= 40
                       THEN "MEDIUM" ELSE "LOW"]
    ELSE [score |-> 0, severity |-> "UNKNOWN"]

nvd_result(cve_id, metrics) ==
    [cve_id |-> cve_id, score |-> cvss_data(metrics).score,
     severity |-> cvss_data(metrics).severity, description |-> "nvd"]

default_result(cve_id) ==
    [cve_id |-> cve_id, score |-> 50, severity |-> "MEDIUM",
     description |-> "Score unavailable from NVD"]

\* the reply is a usable answer of the NVD
Found(reply) ==
    /\ reply.kind = "response"
    /\ reply.status = 200
    /\ reply.totalResults > 0

\* a lookup as the history keeps it
Looked(fn, key, at, hit, external, slot, failed, value, prior) ==
    [kind |-> "ok", fn |-> fn, key |-> key, at |-> at, hit |-> hit,
     external |-> external, slot |-> slot, failed |-> failed, raised |-> FALSE,
     value |-> value, prior |-> prior]

\* a lookup that queried the NVD, as the history keeps it
Queried(at, failed, value) ==
    [kind |-> "query", at |-> at, failed |-> failed, value |-> value]

\* the backend's lookup state: the cache, the limiter's history and the clock
LookupState ==
    [cache |-> _cache, expiry |-> _expiry, times |-> api_call_times, now |-> now,
     admitted |-> admitted, external |-> external_calls]

\* get_cve_score_from_nvd(cve_id) in the state st, `reply` being what the NVD
\* does if it is asked: the record returned and the state after the call
get_cve_score_from_nvd(st, cve_id, reply) ==
    LET key == cve_cache_key(cve_id)
        cached == cache_get(st.cache, st.expiry, key, st.now)
        lim == rate_limit_check(st.times, st.now)
        result == IF Found(reply) THEN nvd_result(cve_id, reply.metrics)
                  ELSE default_result(cve_id)
        ttl == IF Found(reply) THEN CVE_CACHE_TTL ELSE FAILED_LOOKUP_TTL
        stored == cache_set(cached.cache, cached.expiry, key, result, ttl, lim.now)
    IN  IF cached.found
        THEN [value |-> cached.value, hit |-> TRUE, slot |-> FALSE, failed |-> FALSE,
              st |-> st]
        ELSE [value |-> result, hit |-> FALSE, slot |-> Len(lim.times) > 0,
              failed |-> ~Found(reply),
              st |-> [cache |-> stored.cache, expiry |-> stored.expiry,
                      times |-> lim.times, now |-> lim.now,
                      admitted |-> Append(recent_calls(st.admitted, lim.now), lim.now),
                      external |-> st.external + 1]]

\* a call of get_cve_score_from_nvd from outside
GetCveScoreFromNvd ==
    /\ lookups < MaxLookups
    /\ lookups' = lookups + 1
    /\ \E cve_id \in CveIds, reply \in NvdReplies :
          LET key == cve_cache_key(cve_id)
              r == get_cve_score_from_nvd(LookupState, cve_id, reply)
          IN  /\ _cache' = r.st.cache
              /\ _expiry' = r.st.expiry
              /\ api_call_times' = r.st.times
              /\ now' = r.st.now
              /\ admitted' = r.st.admitted
              /\ external_calls' = r.st.external
              /\ last_lookup' = Looked("get_cve_score_from_nvd", key, now, r.hit,
                                       IF r.hit THEN 0 ELSE 1, r.slot, r.failed,
                                       [type |-> "record", record |-> r.value],
                                       last_query[key])
              /\ last_query' = IF r.hit THEN last_query
                               ELSE [last_query EXCEPT ![key] =
                                        Queried(r.st.now, r.failed,
                                                [type |-> "record", record |-> r.value])]
    /\ UNCHANGED <<lk, lifecycleVars, agentVars, detectorVars, analysisVars, rl, calls_started, cve_cache,
                   node_to_software, CVE_DETAILS_CACHE>>

\* CVE objects as nvdlib returns them; a severity of "" stands for an attribute
\* that is missing or empty, scores are in tenths
NvdlibCves ==
    <<[id |-> "CVE-2021-42013", v31severity |-> "CRITICAL", v31score |-> 98,
       v2severity |-> "HIGH", v2score |-> 75, exploitAdd |-> TRUE],
      [id |-> "CVE-2021-41773", v31severity |-> "HIGH", v31score |-> 75,
       v2severity |-> "MEDIUM", v2score |-> 43, exploitAdd |-> TRUE],
      [id |-> "CVE-2010-0425", v31severity |-> "", v31score |-> 0,
       v2severity |-> "HIGH", v2score |-> 100, exploitAdd |-> FALSE]>>

\* what `nvdlib.searchCVE` may do
NvdlibReplies ==
    {[kind |-> "results", data |-> <<>>],
     [kind |-> "results", data |-> SubSeq(NvdlibCves, 1, 1)],
     [kind |-> "results", data |-> NvdlibCves],
     [kind |-> "exception", data |-> <<>>]}

\* CVEAnalyzer._extract_cve_info(cve)
extract_cve_info(cve) ==
    LET cvss == IF cve.v31severity # ""
                THEN [severity |-> cve.v31severity, score |-> cve.v31score]
                ELSE IF cve.v2severity # ""
                THEN [severity |-> cve.v2severity, score |-> cve.v2score]
                ELSE [severity |-> "UNKNOWN", score |-> 0]
    IN  [cve_id |-> cve.id, severity |-> cvss.severity, score |-> cvss.score,
         kev_listed |-> cve.exploitAdd, exploit_available |-> cve.exploitAdd]

\* CVEAnalyzer._version_affected(cve, version): "simplified", always True
version_affected(cve, version) == TRUE

\* CVEAnalyzer._search_cves_for_software(software_info) at time t, `reply`
\* being what nvdlib does if it is asked: the list returned, the cache after
\* the call, and whether nvdlib was asked and failed
search_cves_for_software(cache, software_info, reply, t) ==
    LET key == software_cache_key(software_info)
        fresh == /\ key \in DOMAIN cache
                 /\ t - cache[key].timestamp < cache_timeout
        Affected(cve) == version_affected(cve, software_info.version)
        cve_results == IF reply.kind = "results"
                       THEN LET kept == SelectSeq(reply.data, Affected)
                            IN  [i \in 1..Len(kept) |-> extract_cve_info(kept[i])]
                       ELSE <<>>
    IN  IF fresh
        THEN [data |-> cache[key].data, cache |-> cache, hit |-> TRUE, failed |-> FALSE]
        ELSE [data |-> cve_results,
              cache |-> IF reply.kind = "results"
                        THEN (key :> [timestamp |-> t, data |-> cve_results]) @@ cache
                        ELSE cache,
              hit |-> FALSE, failed |-> reply.kind # "results"]

\* a call of _search_cves_for_software from outside
SearchCvesForSoftware ==
    /\ lookups < MaxLookups
    /\ lookups' = lookups + 1
    /\ \E software_info \in Products, reply \in NvdlibReplies :
          LET key == software_cache_key(software_info)
              r == search_cves_for_software(cve_cache, software_info, reply, now)
          IN  /\ cve_cache' = r.cache
              /\ last_lookup' = Looked("_search_cves_for_software", key, now, r.hit,
                                       IF r.hit THEN 0 ELSE 1, FALSE, r.failed,
                                       [type |-> "list", list |-> r.data],
                                       last_query[key])
              /\ IF r.hit
                 THEN UNCHANGED <<external_calls, last_query>>
                 ELSE /\ external_calls' = external_calls + 1
                      /\ last_query' = [last_query EXCEPT ![key] =
                                           Queried(now, r.failed,
                                                   [type |-> "list", list |-> r.data])]
    /\ UNCHANGED <<lk, lifecycleVars, agentVars, detectorVars, analysisVars, limiterVars, _cache, _expiry,
                   node_to_software, CVE_DETAILS_CACHE>>

\* time passes between two lookups
TimePasses ==
    /\ last_lookup.kind = "ok"
    /\ lookups < MaxLookups
    /\ \E d \in LookupSteps :
          /\ now' = now + d
          /\ admitted' = recent_calls(admitted, now + d)
    /\ last_lookup' = NoResult
    /\ UNCHANGED <<lk, lifecycleVars, agentVars, detectorVars, analysisVars, api_call_times, rl, calls_started,
                   _cache, _expiry, cve_cache, external_calls, last_query, lookups,
                   node_to_software, CVE_DETAILS_CACHE>>

NextLookup ==
    \/ GetCveScoreFromNvd
    \/ SearchCvesForSoftware
    \/ TimePasses

SpecLookup == InitBackend /\ [][NextLookup]_vars

\* ------------------------------------- the backend's adaptive z-score detection
\* Risks are whole numbers and thresholds are held in tenths (1.8 is 18); the
\* comparisons of mean and deviation are made exactly, on n*mean = sum and
\* (n*std)^2 = n*sum(x^2) - sum(x)^2.
RiskVals == {0, 1, 3, 4, 6}
RiskLists == UNION {[1..n -> RiskVals] : n \in 0..MaxRisks}

\* custom_threshold: None, or a number in tenths
NoThreshold == [given |-> FALSE, value |-> 0]
CustomThresholds ==
    {NoThreshold, [given |-> TRUE, value |-> 0], [given |-> TRUE, value |-> 30]}

\* the bands with their comparisons made non-strict
adaptive_band_inclusive(risks) ==
    IF 4 * VarTerm(risks) >= SumSeq(risks) * SumSeq(risks) THEN 18
    ELSE IF 25 * VarTerm(risks) <= SumSeq(risks) * SumSeq(risks) THEN 25
    ELSE 20

\* `std_risk > mean_risk * 0.5` gives 1.8, `std_risk < mean_risk * 0.2` gives
\* 2.5, else 2.0
adaptive_band(risks) ==
    IF 4 * VarTerm(risks) > SumSeq(risks) * SumSeq(risks) THEN 18
    ELSE IF 25 * VarTerm(risks) < SumSeq(risks) * SumSeq(risks) THEN 25
    ELSE 20

\* app.calculate_adaptive_threshold(risk_scores, raw_logs)
calculate_adaptive_threshold(risk_scores) ==
    IF Len(risk_scores) < 3 THEN 20
    ELSE IF VarTerm(risk_scores) = 0 THEN 20
    ELSE adaptive_band(risk_scores)

\* `abs(z_score) > threshold`, z_score = (risk - mean_risk) / std_risk
RiskExceeds(risks, risk, threshold) ==
    100 * DevTerm(risks, risk) * DevTerm(risks, risk)
        > threshold * threshold * VarTerm(risks)

\* anomaly_detector.adaptive_zscore_anomaly_detection(nodes, custom_threshold),
\* the nodes given by their risks: the positions of the anomalies and the
\* threshold returned
adaptive_zscore_anomaly_detection(risks, custom_threshold) ==
    IF Len(risks) < 3
    THEN [anomalies |-> {}, threshold |-> 20]
    ELSE LET threshold ==
                 IF custom_threshold.given /\ custom_threshold.value # 0
                 THEN custom_threshold.value
                 ELSE IF VarTerm(risks) > 0 THEN adaptive_band(risks) ELSE 20
         IN  [anomalies |-> IF VarTerm(risks) > 0
                            THEN {i \in 1..Len(risks) :
                                     RiskExceeds(risks, risks[i], threshold)}
                            ELSE {},
              threshold |-> threshold]

\* every variable but last_call as it is before anything has run
InitNoCall ==
    /\ variant = "monitor"
    /\ batch_size = 1
    /\ is_running = FALSE
    /\ iteration = 0
    /\ pc = "idle"
    /\ graph_data = NoGraph
    /\ batch_results = NoResult
    /\ window_size = DetectorWindow
    /\ window = <<>>
    /\ errors_logged = 0
    /\ failed_step = "none"
    /\ failed_batch = 0
    /\ window_before = <<>>
    /\ exit_cause = "none"
    /\ detect_result = NoResult
    /\ now = 0
    /\ api_call_times = <<>>
    /\ rl = [c \in Callers |-> IdleCaller]
    /\ admitted = <<>>
    /\ calls_started = 0
    /\ _cache = EmptyDict
    /\ _expiry = EmptyDict
    /\ cve_cache = EmptyDict
    /\ external_calls = 0
    /\ last_query = [k \in LookupKeys |-> NoResult]
    /\ last_lookup = NoResult
    /\ lookups = 0
    /\ node_to_software = EmptyDict
    /\ CVE_DETAILS_CACHE = EmptyDict
    /\ NoRun
    /\ lk = [c \in Lookers |-> IdleLooker]
    /\ G = NoView

\* a call as last_call keeps it: `custom_threshold` is the threshold drawn for
\* the calls, `passed` the one this call was given
ThresholdCall(fn, risks, custom_threshold, passed, r) ==
    [kind |-> "ok", fn |-> fn, risks |-> risks, custom_threshold |-> custom_threshold,
     passed |-> passed, threshold |-> r.threshold, anomalies |-> r.anomalies]

\* the nodes' risks and the threshold argument of the calls to come
InitThreshold ==
    /\ InitNoCall
    /\ \E risks \in RiskLists, custom_threshold \in CustomThresholds :
          last_call = [kind |-> "args", fn |-> "none", risks |-> risks,
                       custom_threshold |-> custom_threshold,
                       passed |-> NoThreshold, threshold |-> 0, anomalies |-> {}]

CalculateAdaptiveThreshold ==
    /\ last_call.kind \in {"args", "ok"}
    /\ last_call' = ThresholdCall("calculate_adaptive_threshold", last_call.risks,
                                  last_call.custom_threshold, NoThreshold,
                                  [threshold |-> calculate_adaptive_threshold(last_call.risks),
                                   anomalies |-> {}])
    /\ UNCHANGED <<lk, lifecycleVars, agentVars, detectorVars, limiterVars, cacheVars, G>>

AdaptiveZscoreAnomalyDetection ==
    /\ last_call.kind \in {"args", "ok"}
    /\ last_call' = ThresholdCall("adaptive_zscore_anomaly_detection", last_call.risks,
                                  last_call.custom_threshold, last_call.custom_threshold,
                                  adaptive_zscore_anomaly_detection(
                                      last_call.risks, last_call.custom_threshold))
    /\ UNCHANGED <<lk, lifecycleVars, agentVars, detectorVars, limiterVars, cacheVars, G>>

\* Step 3 of app.process_and_emit: the threshold calculated from the risks is
\* handed to the detection as its custom threshold
DetectWithCalculatedThreshold ==
    /\ last_call.kind \in {"args", "ok"}
    /\ LET t == [given |-> TRUE,
                 value |-> calculate_adaptive_threshold(last_call.risks)]
       IN  last_call' = ThresholdCall("process_and_emit", last_call.risks,
                                      last_call.custom_threshold, NoThreshold,
                                      adaptive_zscore_anomaly_detection(last_call.risks, t))
    /\ UNCHANGED <<lk, lifecycleVars, agentVars, detectorVars, limiterVars, cacheVars, G>>

NextThreshold ==
    \/ CalculateAdaptiveThreshold
    \/ AdaptiveZscoreAnomalyDetection
    \/ DetectWithCalculatedThreshold

SpecThreshold == InitThreshold /\ [][NextThreshold]_vars

\* ------------------------------------------------------ the graph analyzer
\* The view is an undirected graph: its nodes and its edges, an edge being the
\* set of its two ends.
CandidateEdges == {{0, 1}, {0, 2}, {0, 3}, {0, 4}, {1, 2}}

\* the graphs update_graph may be given: nodes 0..num_nodes-1 and edges
\* between them
Views ==
    UNION {{[built |-> TRUE, nodes |-> 0..(n - 1), edges |-> e] :
               e \in SUBSET {c \in CandidateEdges : c \subseteq 0..(n - 1)}} :
           n \in 1..MaxGraphNodes}

\* the lists of flagged node ids: ids of the largest view and one beyond it,
\* none repeated
FlaggedLists ==
    {l \in UNION {[1..k -> 0..MaxGraphNodes] : k \in 0..MaxFlagged} :
        \A i, j \in 1..Len(l) : i # j => l[i] # l[j]}

Neighbors(g, v) == {w \in g.nodes : {v, w} \in g.edges}

\* breadth-first search from the frontier: the number of edges to b, -1 if
\* b is not reached
RECURSIVE Dist(_, _, _, _, _)
Dist(g, frontier, seen, b, d) ==
    IF b \in frontier THEN d
    ELSE IF frontier = {} THEN 0 - 1
    ELSE LET next == UNION {Neighbors(g, v) : v \in frontier} \ seen
         IN  Dist(g, next, seen \cup next, b, d + 1)

distance(g, a, b) == Dist(g, {a}, {a}, b, 0)

\* nx.has_path(G, n1, n2) for nodes of G
has_path(g, a, b) == distance(g, a, b) >= 0

\* nx.shortest_path(G, n1, n2): a path with the fewest edges; among the
\* neighbours that lie on one, `tie` says which the search takes
RECURSIVE shortest_path(_, _, _, _)
shortest_path(g, a, b, tie) ==
    IF a = b THEN <<b>>
    ELSE LET closer == {w \in Neighbors(g, a) : distance(g, w, b) = distance(g, a, b) - 1}
             w == IF tie = "low"
                  THEN CHOOSE x \in closer : \A y \in closer : x <= y
                  ELSE CHOOSE x \in closer : \A y \in closer : x >= y
         IN  <<a>> \o shortest_path(g, w, b, tie)

\* the pairs (i, j), i < j <= m, in the order of the two nested loops
RECURSIVE PairsFrom(_, _, _)
PairsFrom(i, j, m) ==
    IF i >= m THEN <<>>
    ELSE IF j > m THEN PairsFrom(i + 1, i + 2, m)
    ELSE <<(<<i, j>>)>> \o PairsFrom(i, j + 1, m)

\* the entry the loop body appends for a pair, if any.  A node that is not in
\* G makes nx.has_path raise NodeNotFound, which the body catches.
PathEntries(g, n1, n2, tie) ==
    IF n1 \notin g.nodes \/ n2 \notin g.nodes THEN <<>>
    ELSE IF ~has_path(g, n1, n2) THEN <<>>
    ELSE LET path == shortest_path(g, n1, n2, tie)
         IN  IF Len(path) > 2
             THEN <<[path |-> path, length |-> Len(path), source |-> n1, target |-> n2]>>
             ELSE <<>>

RECURSIVE CollectPaths(_, _, _, _)
CollectPaths(g, nodes, pairs, tie) ==
    IF pairs = <<>> THEN <<>>
    ELSE PathEntries(g, nodes[Head(pairs)[1]], nodes[Head(pairs)[2]], tie)
            \o CollectPaths(g, nodes, Tail(pairs), tie)

\* list.sort(key=length), which is stable: insertion from the right
RECURSIVE InsertByLength(_, _)
InsertByLength(e, sorted) ==
    IF sorted = <<>> THEN <<e>>
    ELSE IF e.length <= Head(sorted).length THEN <<e>> \o sorted
    ELSE <<Head(sorted)>> \o InsertByLength(e, Tail(sorted))

RECURSIVE SortByLength(_)
SortByLength(paths) ==
    IF paths = <<>> THEN <<>>
    ELSE InsertByLength(Head(paths), SortByLength(Tail(paths)))

\* s[:k] for k >= 0
Prefix(s, k) == SubSeq(s, 1, Min(k, Len(s)))

\* find_vulnerable_paths with the sort left out
find_vulnerable_paths_unsorted(g, anomalous_nodes, top_k, tie) ==
    IF ~g.built \/ Len(anomalous_nodes) < 2 THEN <<>>
    ELSE LET anomalous_nodes_list == Prefix(anomalous_nodes, top_k)
             paths == CollectPaths(g, anomalous_nodes_list,
                                   PairsFrom(1, 2, Len(anomalous_nodes_list)), tie)
         IN  Prefix(paths, top_k)

\* GraphAnalyzer.find_vulnerable_paths(anomalous_nodes, top_k)
find_vulnerable_paths(g, anomalous_nodes, top_k, tie) ==
    IF ~g.built \/ Len(anomalous_nodes) < 2 THEN <<>>
    ELSE LET anomalous_nodes_list == Prefix(anomalous_nodes, top_k)
             paths == CollectPaths(g, anomalous_nodes_list,
                                   PairsFrom(1, 2, Len(anomalous_nodes_list)), tie)
         IN  Prefix(SortByLength(paths), top_k)

\* GraphAnalyzer.update_graph(edge_index, num_nodes): the view is rebuilt from
\* the edges and the node count of the call
update_graph(edges, num_nodes) ==
    [built |-> TRUE, nodes |-> 0..(num_nodes - 1), edges |-> edges]

\* the view to build and the arguments of the calls to come
InitPaths ==
    /\ InitNoCall
    /\ \E view \in Views, anomalous_nodes \in FlaggedLists, top_k \in 0..MaxTopK :
          last_call = [kind |-> "args", fn |-> "none", view |-> view,
                       anomalous_nodes |-> anomalous_nodes, top_k |-> top_k,
                       paths |-> <<>>, raised |-> FALSE]

UpdateGraph ==
    /\ last_call.kind \in {"args", "ok"}
    /\ G' = update_graph(last_call.view.edges, Cardinality(last_call.view.nodes))
    /\ UNCHANGED <<lk, lifecycleVars, agentVars, detectorVars, limiterVars, cacheVars, last_call>>

FindVulnerablePaths ==
    /\ last_call.kind \in {"args", "ok"}
    /\ \E tie \in {"low", "high"} :
          last_call' = [last_call EXCEPT
                           !.kind = "ok",
                           !.fn = "find_vulnerable_paths",
                           !.paths = find_vulnerable_paths(G, last_call.anomalous_nodes,
                                                           last_call.top_k, tie)]
    /\ UNCHANGED <<lk, lifecycleVars, agentVars, detectorVars, limiterVars, cacheVars, G>>

NextPaths ==
    \/ UpdateGraph
    \/ FindVulnerablePaths

SpecPaths == InitPaths /\ [][NextPaths]_vars

\* the number of shortest paths from a to b, b reachable from a
RECURSIVE NumShortest(_, _, _)
NumShortest(g, a, b) ==
    IF a = b THEN 1
    ELSE SumSeq([i \in 1..(MaxGraphNodes + 1) |->
                    IF /\ (i - 1) \in Neighbors(g, a)
                       /\ distance(g, i - 1, b) = distance(g, a, b) - 1
                    THEN NumShortest(g, i - 1, b) ELSE 0])

\* 60 times the share of the shortest s-t paths that pass through v (the
\* numbers of shortest paths between two nodes of these views divide 60)
PairShare(g, s, t, v) ==
    IF /\ has_path(g, s, t)
       /\ has_path(g, s, v)
       /\ has_path(g, v, t)
       /\ distance(g, s, v) + distance(g, v, t) = distance(g, s, t)
    THEN (60 * NumShortest(g, s, v) * NumShortest(g, v, t)) \div NumShortest(g, s, t)
    ELSE 0

\* nx.betweenness_centrality(G)[v], normalized, as the fraction num/den
betweenness_centrality(g, v) ==
    LET n == Cardinality(g.nodes)
        others == g.nodes \ {v}
        shares == SumSeq([i \in 1..(MaxGraphNodes + 1) |->
                      SumSeq([j \in 1..(MaxGraphNodes + 1) |->
                          IF (i - 1) \in others /\ (j - 1) \in others /\ i < j
                          THEN PairShare(g, i - 1, j - 1, v) ELSE 0])])
    IN  IF n <= 2 THEN [num |-> 0, den |-> 1]
        ELSE [num |-> 2 * shares, den |-> 60 * (n - 1) * (n - 2)]

\* nx.clustering(G, v) as the fraction num/den
clustering(g, v) ==
    LET nbrs == Neighbors(g, v)
        deg == Cardinality(nbrs)
        links == Cardinality({e \in g.edges : e \subseteq nbrs})
    IN  IF deg < 2 THEN [num |-> 0, den |-> 1]
        ELSE [num |-> 2 * links, den |-> deg * (deg - 1)]

ZeroMetrics ==
    [degree |-> 0, betweenness |-> [num |-> 0, den |-> 1],
     clustering |-> [num |-> 0, den |-> 1], neighbors |-> {}]

\* analyze_node_importance without the test that the node is in the view:
\* G.degree raises for a node that is not there
analyze_node_importance_unguarded(g, node_id) ==
    IF ~g.built THEN [raised |-> FALSE, metrics |-> ZeroMetrics, view |-> g]
    ELSE IF node_id \notin g.nodes
    THEN [raised |-> TRUE, metrics |-> NoResult, view |-> g]
    ELSE [raised |-> FALSE,
          metrics |-> [degree |-> Cardinality(Neighbors(g, node_id)),
                       betweenness |-> betweenness_centrality(g, node_id),
                       clustering |-> clustering(g, node_id),
                       neighbors |-> Neighbors(g, node_id)],
          view |-> g]

\* GraphAnalyzer.analyze_node_importance(node_id): the metrics returned and
\* the view after the call
analyze_node_importance(g, node_id) ==
    IF ~g.built THEN [raised |-> FALSE, metrics |-> ZeroMetrics, view |-> g]
    ELSE IF node_id \notin g.nodes
    THEN [raised |-> FALSE, metrics |-> ZeroMetrics, view |-> g]
    ELSE [raised |-> FALSE,
          metrics |-> [degree |-> Cardinality(Neighbors(g, node_id)),
                       betweenness |-> betweenness_centrality(g, node_id),
                       clustering |-> clustering(g, node_id),
                       neighbors |-> Neighbors(g, node_id)],
          view |-> g]

\* the view to build and the node to ask about
InitImportance ==
    /\ InitNoCall
    /\ \E view \in Views, node_id \in 0..MaxGraphNodes :
          last_call = [kind |-> "args", fn |-> "none", view |-> view,
                       node_id |-> node_id, raised |-> FALSE,
                       metrics |-> NoResult, view_before |-> NoView]

AnalyzeNodeImportance ==
    /\ last_call.kind \in {"args", "ok"}
    /\ LET r == analyze_node_importance(G, last_call.node_id)
       IN  /\ last_call' = [last_call EXCEPT !.kind = "ok",
                                             !.fn = "analyze_node_importance",
                                             !.raised = r.raised,
                                             !.metrics = r.metrics,
                                             !.view_before = G]
           /\ G' = r.view
    /\ UNCHANGED <<lk, lifecycleVars, agentVars, detectorVars, limiterVars, cacheVars>>

\* update_graph, after which the last call's result is no longer at hand
RebuildGraph ==
    /\ last_call.kind \in {"args", "ok"}
    /\ G' = update_graph(last_call.view.edges, Cardinality(last_call.view.nodes))
    /\ last_call' = [last_call EXCEPT !.kind = "args", !.fn = "none",
                                      !.raised = FALSE, !.metrics = NoResult,
                                      !.view_before = NoView]
    /\ UNCHANGED <<lk, lifecycleVars, agentVars, detectorVars, limiterVars, cacheVars>>

NextImportance ==
    \/ RebuildGraph
    \/ AnalyzeNodeImportance

SpecImportance == InitImportance /\ [][NextImportance]_vars

\* ------------------------------------------------ the analysis of a cycle
\* The snapshots of the analysis: every feature row is <<0, 0>>, so a node's
\* score is the mean square of its reconstructed row.  A snapshot of at most
\* WINDOW_SIZE nodes is wholly in the window when its scores are judged; of a
\* larger one only the last WINDOW_SIZE scores are.
AnalysisSizes == {30, 121}
AnalysisSnapshots ==
    {[num_nodes |-> n, x |-> [i \in 1..n |-> <<0, 0>>]] : n \in AnalysisSizes}
\* the batch sizes a snapshot is scored with: one batch, or two
AnalysisBatchSizes(gd) == {gd.num_nodes, (gd.num_nodes + 1) \div 2}
\* reconstructed rows with the errors 4 and 5
HotRows == {<<2, 2>>, <<1, 3>>}
\* the nodes that are reconstructed badly: one or two of the first three of a
\* small snapshot, the first DetailLimit, ... of a large one
HotSets(gd) ==
    IF gd.num_nodes <= WINDOW_SIZE
    THEN {S \in SUBSET {0, 1, 2} : Cardinality(S) \in 1..2}
    ELSE {0..(m - 1) : m \in DetailLimit..(DetailLimit + MaxExtraHot)}
HotAssignments(S) ==
    IF Cardinality(S) <= 2 THEN [S -> HotRows]
    ELSE {[i \in S |-> IF i = h THEN <<1, 3>> ELSE <<2, 2>>] :
            h \in {0, Cardinality(S) - 1}}
\* what the model returns for the snapshot
AnalysisReconstructions(gd) ==
    {[i \in 1..gd.num_nodes |-> IF (i - 1) \in DOMAIN h THEN h[i - 1] ELSE <<0, 0>>] :
        h \in UNION {HotAssignments(S) : S \in HotSets(gd)}}

\* the ids a list holds
Ids(list) == {list[i] : i \in 1..Len(list)}

RECURSIVE Ascending(_)
\* np.where(anomalies)[0]: the flagged positions as a list, lowest first
Ascending(S) ==
    IF S = {} THEN <<>>
    ELSE LET lo == CHOOSE a \in S : \A b \in S : a <= b
         IN  <<lo>> \o Ascending(S \ {lo})

\* GNNAgent._analyze_batch_results of the two agents.  `used` is the list the
\* rest of the method works with: the XAI agent keeps the ids below num_nodes,
\* the monitor agent takes the list as it is.  Only the XAI agent hands the
\* list to the CVE analyzer.
analyze_batch_results(v, results, gd, g) ==
    LET anomalous_nodes == Ascending(results.anomalous_nodes)
        Valid(node) == node < gd.num_nodes
        used == IF v = "xai" THEN SelectSeq(anomalous_nodes, Valid)
                ELSE anomalous_nodes
        detailed == Prefix(used, DetailLimit)
    IN  [kind |-> "ok", fn |-> "_analyze_batch_results",
         total_nodes |-> gd.num_nodes,
         used |-> used,
         anomalous_nodes |-> Len(used),
         anomaly_rate |-> [num |-> Len(used), den |-> gd.num_nodes],
         threshold |-> ZSCORE_THRESHOLD,
         node_details |->
            [i \in 1..Len(detailed) |->
                [node_id |-> detailed[i],
                 anomaly_score |-> results.scores[detailed[i] + 1],
                 z_score |-> results.z_scores[detailed[i] + 1],
                 metrics |-> analyze_node_importance(g, detailed[i]).metrics]],
         path_nodes |-> used,
         vulnerable_paths |-> find_vulnerable_paths(g, used, PathsTopK, "low"),
         cve_nodes |-> IF v = "xai" THEN used ELSE <<>>]

\* an agent that has just taken a snapshot, its detector's window still empty
InitAnalysis ==
    /\ variant \in {"xai", "monitor"}
    /\ graph_data \in AnalysisSnapshots
    /\ batch_size \in AnalysisBatchSizes(graph_data)
    /\ is_running = TRUE
    /\ iteration = 1
    /\ pc = "process_graph"
    /\ batch_results = NoResult
    /\ window_size = WINDOW_SIZE
    /\ window = <<>>
    /\ errors_logged = 0
    /\ failed_step = "none"
    /\ failed_batch = 0
    /\ window_before = <<>>
    /\ exit_cause = "none"
    /\ detect_result = NoResult
    /\ now = 0
    /\ api_call_times = <<>>
    /\ rl = [c \in Callers |-> IdleCaller]
    /\ admitted = <<>>
    /\ calls_started = 0
    /\ _cache = EmptyDict
    /\ _expiry = EmptyDict
    /\ cve_cache = EmptyDict
    /\ external_calls = 0
    /\ last_query = [k \in LookupKeys |-> NoResult]
    /\ last_lookup = NoResult
    /\ lookups = 0
    /\ node_to_software = EmptyDict
    /\ CVE_DETAILS_CACHE = EmptyDict
    /\ NoRun
    /\ lk = [c \in Lookers |-> IdleLooker]
    /\ last_call = NoResult
    /\ G = NoView

\* step 2 of _monitor_cycle: the snapshot is scored
ScoreSnapshot ==
    /\ pc = "process_graph"
    /\ \E x_recon \in AnalysisReconstructions(graph_data) :
          LET r == process_graph(graph_data, x_recon, 0, window, batch_size, window_size)
          IN  /\ batch_results' = r.results
              /\ window' = r.window
              /\ window_before' = window
    /\ pc' = "analyze"
    /\ UNCHANGED <<lk, lifecycleVars, variant, batch_size, is_running, iteration, graph_data, window_size,
                   errors_logged, failed_step, failed_batch, exit_cause,
                   detect_result, backendVars>>

\* step 3 of _monitor_cycle: the first cycle's analysis, made before the graph
\* analyzer has been given a view
AnalyzeBatchResults ==
    /\ pc = "analyze"
    /\ last_call' = analyze_batch_results(variant, batch_results, graph_data, G)
    /\ pc' = "update_graph"
    /\ UNCHANGED <<lk, lifecycleVars, variant, batch_size, is_running, iteration, graph_data,
                   batch_results, errors_logged, failed_step, failed_batch,
                   window_before, exit_cause, detectorVars, limiterVars,
                   cacheVars, G>>

NextAnalysis ==
    \/ ScoreSnapshot
    \/ AnalyzeBatchResults

SpecAnalysis == InitAnalysis /\ [][NextAnalysis]_vars

\* --------------------------------------------------- the CVE correlation
\* the anomalous-node lists the analyzer is called with
AnomalousLists == {[i \in 1..k |-> i - 1] : k \in 0..MaxAnomalous}
\* the nodes that software may be registered for: the first, the 20th and the
\* 21st of the longest lists
RegistrableNodes == {0, CorrelateLimit - 1, CorrelateLimit}

\* the result dict of analyze_anomalous_nodes as it is before the loop, with
\* the cache, what each search returned, and the number of NVD searches
NoIntelligence(cache) ==
    [total_cves_found |-> 0, critical_cves |-> <<>>, high_cves |-> <<>>,
     node_cve_mapping |-> EmptyDict, exploit_available |-> <<>>, kev_listed |-> <<>>,
     cache |-> cache, searched |-> EmptyDict, external |-> 0]

\* the `if cves:` block with every record taken for a critical one
record_cves_uncategorized(acc, node_id, cves) ==
    IF Len(cves) = 0 THEN acc
    ELSE [acc EXCEPT !.node_cve_mapping = (node_id :> cves) @@ @,
                     !.total_cves_found = @ + Len(cves),
                     !.critical_cves = @ \o cves]

\* the `if cves:` block of analyze_anomalous_nodes
record_cves(acc, node_id, cves) ==
    LET IsCritical(cve_data) == cve_data.severity = "CRITICAL"
        IsHigh(cve_data) == cve_data.severity = "HIGH"
        Exploit(cve_data) == cve_data.exploit_available
        Kev(cve_data) == cve_data.kev_listed
    IN  IF Len(cves) = 0 THEN acc
        ELSE [acc EXCEPT !.node_cve_mapping = (node_id :> cves) @@ @,
                         !.total_cves_found = @ + Len(cves),
                         !.critical_cves = @ \o SelectSeq(cves, IsCritical),
                         !.high_cves = @ \o SelectSeq(cves, IsHigh),
                         !.exploit_available = @ \o SelectSeq(cves, Exploit),
                         !.kev_listed = @ \o SelectSeq(cves, Kev)]

RECURSIVE Correlate(_, _, _, _, _, _)
\* the loop of analyze_anomalous_nodes over nodes[i], nodes[i + 1], ...;
\* replies[node] is what nvdlib does if it is searched for the node
Correlate(nodes, i, registry, replies, t, acc) ==
    IF i > Len(nodes) THEN acc
    ELSE IF nodes[i] \notin DOMAIN registry
    THEN Correlate(nodes, i + 1, registry, replies, t, acc)
    ELSE LET node_id == nodes[i]
             r == search_cves_for_software(acc.cache, registry[node_id],
                                           replies[node_id], t)
             found == record_cves(acc, node_id, r.data)
         IN  Correlate(nodes, i + 1, registry, replies, t,
                       [found EXCEPT !.cache = r.cache,
                                     !.searched = (node_id :> r.data) @@ @,
                                     !.external = @ + (IF r.hit THEN 0 ELSE 1)])

\* CVEAnalyzer._generate_cve_actions: the actions recommended, in order
generate_cve_actions(cve_intelligence) ==
    (IF Len(cve_intelligence.critical_cves) > 0
     THEN <<"patch_critical_vulnerabilities">> ELSE <<>>)
    \o (IF Len(cve_intelligence.kev_listed) > 0
        THEN <<"address_known_exploited_vulnerabilities">> ELSE <<>>)
    \o (IF Len(cve_intelligence.exploit_available) > 0
        THEN <<"mitigate_exploitable_vulnerabilities">> ELSE <<>>)
    \o (IF Len(cve_intelligence.high_cves) > 0
        THEN <<"schedule_high_severity_patches">> ELSE <<>>)

\* CVEAnalyzer.analyze_anomalous_nodes(anomalous_nodes, node_details)
analyze_anomalous_nodes(anomalous_nodes, registry, cache, replies, t) ==
    Correlate(Prefix(anomalous_nodes, CorrelateLimit), 1, registry, replies, t,
              NoIntelligence(cache))

\* the list the analyzer will be called with
InitCorrelate ==
    /\ InitNoCall
    /\ \E anomalous_nodes \in AnomalousLists :
          last_call = [kind |-> "args", fn |-> "none",
                       anomalous_nodes |-> anomalous_nodes,
                       registry |-> EmptyDict, intelligence |-> NoResult,
                       recommended_actions |-> <<>>]

\* CVEAnalyzer.register_node_software(node_id, software_info)
RegisterNodeSoftware ==
    /\ \E node_id \in RegistrableNodes, software_info \in Products :
          node_to_software' = (node_id :> software_info) @@ node_to_software
    /\ UNCHANGED <<lk, lifecycleVars, agentVars, detectorVars, limiterVars, analysisVars, _cache, _expiry,
                   cve_cache, external_calls, last_query, last_lookup, lookups,
                   CVE_DETAILS_CACHE>>

AnalyzeAnomalousNodes ==
    /\ lookups < MaxLookups
    /\ lookups' = lookups + 1
    /\ \E replies \in [DOMAIN node_to_software -> NvdlibReplies] :
          LET r == analyze_anomalous_nodes(last_call.anomalous_nodes, node_to_software,
                                           cve_cache, replies, now)
          IN  /\ last_call' = [last_call EXCEPT !.kind = "ok",
                                                !.fn = "analyze_anomalous_nodes",
                                                !.registry = node_to_software,
                                                !.intelligence = r,
                                                !.recommended_actions =
                                                    generate_cve_actions(r)]
              /\ cve_cache' = r.cache
              /\ external_calls' = external_calls + r.external
    /\ UNCHANGED <<lk, lifecycleVars, agentVars, detectorVars, limiterVars, G, _cache, _expiry, last_query,
                   last_lookup, node_to_software, CVE_DETAILS_CACHE>>

NextCorrelate ==
    \/ RegisterNodeSoftware
    \/ AnalyzeAnomalousNodes

SpecCorrelate == InitCorrelate /\ [][NextCorrelate]_vars

\* ------------------------------------------------ the backend's node risk
\* Scores and risks are in tenths; a risk that is a quotient is held as
\* [num, den], den > 0.
RiskCveIds == {"CVE-2021-41773", "CVE-2021-42013"}
\* list(set(direct_cves + cve_list)): the CVEs of a node, none twice
CveLists ==
    {<<>>} \cup {<<a>> : a \in RiskCveIds}
           \cup {p \in RiskCveIds \X RiskCveIds : p[1] # p[2]}
\* what the NVD does when a node's CVE is looked up
RiskReplies == {r \in NvdReplies : r.kind = "response" /\ r.status \in {200, 404}}
\* the attrs of a node
NodeAttrs ==
    [suspicious_process : BOOLEAN, privilege_escalation : BOOLEAN,
     network_anomaly : {FALSE}, unauthorized_access : {FALSE},
     connection_count : {0, 101}, known_malicious_ip : BOOLEAN,
     failed_login_attempts : {6}]

\* compute_node_risk(node_dict), in tenths
compute_node_risk(attrs) ==
    Min(100,
        (IF attrs.suspicious_process THEN 30 ELSE 0)
        + (IF attrs.privilege_escalation THEN 40 ELSE 0)
        + (IF attrs.network_anomaly THEN 25 ELSE 0)
        + (IF attrs.unauthorized_access THEN 35 ELSE 0)
        + (IF attrs.connection_count > 100 THEN 20
           ELSE IF attrs.connection_count > 50 THEN 10 ELSE 0)
        + (IF attrs.known_malicious_ip THEN 50 ELSE 0)
        + (IF attrs.failed_login_attempts > 10 THEN 30
           ELSE IF attrs.failed_login_attempts > 5 THEN 15 ELSE 0))

\* the weight of a score, in halves: 1.5 for 9.0 and more, 1.0 below
Weight(s) == IF s >= 90 THEN 3 ELSE 2

Zero == [num |-> 0, den |-> 1]

\* the mean of the scores with every weight 1.0
weighted_mean_flat(scores) ==
    [num |-> Min(SumSeq(scores), 100 * Len(scores)), den |-> Len(scores)]

\* min(10.0, weighted_sum / weight_count) for a non-empty list of scores
weighted_mean(scores) ==
    LET weighted_sum == SumSeq([i \in 1..Len(scores) |-> scores[i] * Weight(scores[i])])
        weight_count == SumSeq([i \in 1..Len(scores) |-> Weight(scores[i])])
    IN  [num |-> Min(weighted_sum, 100 * weight_count), den |-> weight_count]

RECURSIVE LookupScores(_, _, _, _, _)
\* the loop of compute_cve_risk_score over cve_list[i], ...: the score of every
\* CVE looked up, in order, and the lookup state after the loop
LookupScores(cve_list, i, replies, st, looked) ==
    IF i > Len(cve_list) THEN [looked |-> looked, st |-> st]
    ELSE LET r == get_cve_score_from_nvd(st, cve_list[i], replies[cve_list[i]])
         IN  LookupScores(cve_list, i + 1, replies, r.st, Append(looked, r.value.score))

\* compute_cve_risk_score(cve_list) in the lookup state st
compute_cve_risk_score(st, cve_list, replies) ==
    LET l == LookupScores(cve_list, 1, replies, st, <<>>)
        Positive(score) == score > 0
        scores == SelectSeq(l.looked, Positive)
    IN  IF Len(cve_list) = 0 THEN [risk |-> Zero, looked |-> <<>>, st |-> st]
        ELSE IF Len(scores) = 0 THEN [risk |-> Zero, looked |-> l.looked, st |-> l.st]
        ELSE [risk |-> weighted_mean(scores), looked |-> l.looked, st |-> l.st]

\* the combination with the two weights exchanged
combined_risk_swapped(cve_risk, behavioral_risk) ==
    [num |-> 3 * cve_risk.num + 7 * behavioral_risk * cve_risk.den,
     den |-> 10 * cve_risk.den]

\* risk_score = (cve_risk * 0.7) + (behavioral_risk * 0.3)
combined_risk(cve_risk, behavioral_risk) ==
    [num |-> 7 * cve_risk.num + 3 * behavioral_risk * cve_risk.den,
     den |-> 10 * cve_risk.den]

RECURSIVE GetDetails(_, _, _, _, _)
\* the `for cve_id in all_cves` loop of process_and_emit: a CVE that is not in
\* CVE_DETAILS_CACHE is looked up and put there
GetDetails(all_cves, i, replies, st, details) ==
    IF i > Len(all_cves) THEN [details |-> details, st |-> st]
    ELSE IF all_cves[i] \in DOMAIN details
    THEN GetDetails(all_cves, i + 1, replies, st, details)
    ELSE LET r == get_cve_score_from_nvd(st, all_cves[i], replies[all_cves[i]])
         IN  GetDetails(all_cves, i + 1, replies, r.st,
                        (all_cves[i] :> r.value) @@ details)

\* a call as last_call keeps it
RiskCall(fn, attrs, all_cves, looked, cve_risk, behavioral_risk, risk) ==
    [kind |-> "ok", fn |-> fn, attrs |-> attrs, all_cves |-> all_cves,
     looked |-> looked, cve_risk |-> cve_risk, behavioral_risk |-> behavioral_risk,
     risk |-> risk]

\* the node and its CVEs
InitRisk ==
    /\ InitNoCall
    /\ \E attrs \in NodeAttrs, all_cves \in CveLists :
          last_call = [kind |-> "args", fn |-> "none", attrs |-> attrs,
                       all_cves |-> all_cves, looked |-> <<>>, cve_risk |-> Zero,
                       behavioral_risk |-> 0, risk |-> Zero]

\* the lookup state st becomes the state
SetLookupState(st) ==
    /\ _cache' = st.cache
    /\ _expiry' = st.expiry
    /\ api_call_times' = st.times
    /\ now' = st.now
    /\ admitted' = st.admitted
    /\ external_calls' = st.external

\* a call of compute_cve_risk_score(cve_list)
ComputeCveRiskScore ==
    /\ lookups < MaxRiskCalls
    /\ lookups' = lookups + 1
    /\ \E replies \in [Ids(last_call.all_cves) -> RiskReplies] :
          LET r == compute_cve_risk_score(LookupState, last_call.all_cves, replies)
          IN  /\ SetLookupState(r.st)
              /\ last_call' = RiskCall("compute_cve_risk_score", last_call.attrs,
                                       last_call.all_cves, r.looked, r.risk, 0, Zero)
    /\ UNCHANGED <<lk, lifecycleVars, agentVars, detectorVars, G, rl, calls_started, cve_cache, last_query,
                   last_lookup, node_to_software, CVE_DETAILS_CACHE>>

\* one pass of the node loop of process_and_emit: the details of the node's
\* CVEs, its two risks and their combination
ScoreNode ==
    /\ lookups < MaxRiskCalls
    /\ lookups' = lookups + 1
    /\ \E replies \in [Ids(last_call.all_cves) -> RiskReplies] :
          LET all_cves == last_call.all_cves
              d == GetDetails(all_cves, 1, replies, LookupState, CVE_DETAILS_CACHE)
              c == IF Len(all_cves) > 0
                   THEN compute_cve_risk_score(d.st, all_cves, replies)
                   ELSE [risk |-> Zero, looked |-> <<>>, st |-> d.st]
              behavioral_risk == compute_node_risk(last_call.attrs)
          IN  /\ SetLookupState(c.st)
              /\ CVE_DETAILS_CACHE' = d.details
              /\ last_call' = RiskCall("process_and_emit", last_call.attrs, all_cves,
                                       c.looked, c.risk, behavioral_risk,
                                       combined_risk(c.risk, behavioral_risk))
    /\ UNCHANGED <<lk, lifecycleVars, agentVars, detectorVars, G, rl, calls_started, cve_cache, last_query,
                   last_lookup, node_to_software>>

NextRisk ==
    \/ ComputeCveRiskScore
    \/ ScoreNode

SpecRisk == InitRisk /\ [][NextRisk]_vars

\* ------------------------------------------------- the detector's window
\* the score vectors of the updates: of every length up to MaxVector, so also
\* longer than the window
WindowVectors == UNION {[1..n -> ScoreVals] : n \in 0..MaxVector}

\* a detector with a window of some capacity, nothing appended yet
InitWindow ==
    /\ variant = "monitor"
    /\ batch_size = 1
    /\ is_running = FALSE
    /\ iteration = 0
    /\ pc = "idle"
    /\ graph_data = NoGraph
    /\ batch_results = NoResult
    /\ window_size \in 1..MaxWindow
    /\ window = <<>>
    /\ errors_logged = 0
    /\ failed_step = "none"
    /\ failed_batch = 0
    /\ window_before = <<>>
    /\ exit_cause = "none"
    /\ detect_result = NoResult
    /\ now = 0
    /\ api_call_times = <<>>
    /\ rl = [c \in Callers |-> IdleCaller]
    /\ admitted = <<>>
    /\ calls_started = 0
    /\ _cache = EmptyDict
    /\ _expiry = EmptyDict
    /\ cve_cache = EmptyDict
    /\ external_calls = 0
    /\ last_query = [k \in LookupKeys |-> NoResult]
    /\ last_lookup = NoResult
    /\ lookups = 0
    /\ node_to_software = EmptyDict
    /\ CVE_DETAILS_CACHE = EmptyDict
    /\ NoRun
    /\ lk = [c \in Lookers |-> IdleLooker]
    /\ last_call = [kind |-> "args", fn |-> "none", arrived |-> <<>>, scores |-> <<>>,
                    window_before |-> <<>>]
    /\ G = NoView

\* ZScoreAnomalyDetector.update(scores); last_call keeps every score appended
\* so far, in the order of arrival
WindowUpdate ==
    /\ \E scores \in WindowVectors :
          /\ Len(last_call.arrived) + Len(scores) <= MaxArrived
          /\ window' = update(window, scores, window_size)
          /\ last_call' = [kind |-> "ok", fn |-> "update",
                           arrived |-> last_call.arrived \o scores,
                           scores |-> scores, window_before |-> window]
    /\ detect_result' = NoResult
    /\ UNCHANGED <<lk, lifecycleVars, agentVars, window_size, limiterVars, cacheVars, G>>

\* ZScoreAnomalyDetector.detect_anomalies(scores), which leaves the window alone
WindowDetect ==
    /\ \E scores \in ScoreVectors :
          LET det == detect_anomalies(window, scores)
          IN  detect_result' = [kind |-> "ok", scores |-> scores,
                                anomalies |-> det.anomalies, z_kind |-> det.z_kind,
                                z_scores |-> det.z_scores, warm |-> ~WarmingUp(window)]
    /\ UNCHANGED <<lk, lifecycleVars, agentVars, window_size, window, backendVars>>

NextWindow ==
    \/ WindowUpdate
    \/ WindowDetect

SpecWindow == InitWindow /\ [][NextWindow]_vars

\* ------------------------------------------ the agent's run, stop and cleanup
\* run(), _monitor_cycle() and _cleanup() followed from one await to the next,
\* for the stops a run can meet: the flag cleared, a KeyboardInterrupt, a
\* cancellation of the task, an exception of a step.

\* the snapshots of the cycles: the graph one describes and the scores the
\* scorer gives its nodes
CycleGraphs ==
    {[num_nodes |-> 2, edges |-> {}, scores |-> <<0, 0>>],
     [num_nodes |-> 2, edges |-> {{0, 1}}, scores |-> <<1, 0>>]}

\* how many cycles the invocations are followed for
IterationCap == IF run_calls = 1 THEN MaxIterations ELSE MaxCycles

\* the steps of _monitor_cycle
CycleSteps == {"snapshot", "process"} \cup {LaterSteps[i] : i \in 1..Len(LaterSteps)}

\* where run() is suspended with the event loop free for other tasks: in the
\* request of llm_client.generate (step 5) and in asyncio.sleep
AwaitPoints == {"reason", "sleep"}

\* task r has the event loop: every other invocation is suspended, not yet
\* made or over
CanRun(r) ==
    \A q \in Runs \ {r} : tasks[q].pc \in AwaitPoints \cup {"idle", "exited"}

\* deque(maxlen).append(entry) that lets the deque grow
memory_append_unbounded(mem, entry, maxlen) == Append(mem, entry)

\* deque(maxlen=AGENT_MEMORY_SIZE).append(memory_entry)
memory_append(mem, entry, maxlen) == Last(Append(mem, entry), maxlen)

\* GroqClient.close that leaves the session as it is
close_nothing(s) == s

\* GroqClient.close: an open session is closed and forgotten
close(s) == IF s = "open" THEN "none" ELSE s

\* what run() does after _cleanup, by the way its loop was left: a
\* KeyboardInterrupt is handled, other exceptions go on to the caller
exit_of(cause) ==
    IF cause \in {"flag_cleared", "KeyboardInterrupt"} THEN "returned" ELSE cause

\* the record of a cycle that has ended
Ended(r, result) ==
    Append(outcomes, [iteration |-> iteration, result |-> result,
                      mutated |-> tasks[r].mutated])

\* GNNAgent.__init__, the caller about to invoke run() n times
InitRuns(n) ==
    /\ variant \in {"xai", "monitor"}
    /\ batch_size = 1
    /\ is_running = FALSE
    /\ iteration = 0
    /\ pc = "idle"
    /\ graph_data = NoGraph
    /\ batch_results = NoResult
    /\ window_size = AgentWindow
    /\ window = <<>>
    /\ errors_logged = 0
    /\ failed_step = "none"
    /\ failed_batch = 0
    /\ window_before = <<>>
    /\ exit_cause = "none"
    /\ detect_result = NoResult
    /\ now = 0
    /\ api_call_times = <<>>
    /\ rl = [c \in Callers |-> IdleCaller]
    /\ admitted = <<>>
    /\ calls_started = 0
    /\ _cache = EmptyDict
    /\ _expiry = EmptyDict
    /\ cve_cache = EmptyDict
    /\ external_calls = 0
    /\ last_query = [k \in LookupKeys |-> NoResult]
    /\ last_lookup = NoResult
    /\ lookups = 0
    /\ node_to_software = EmptyDict
    /\ CVE_DETAILS_CACHE = EmptyDict
    /\ last_call = NoResult
    /\ G = NoView
    /\ run_calls = n
    /\ tasks = [r \in Runs |-> IdleTask]
    /\ memory_size \in 1..MaxMemory
    /\ memory = <<>>
    /\ session = "none"
    /\ logged = {}
    /\ reports = <<>>
    /\ appended = <<>>
    /\ outcomes = <<>>
    /\ lk = [c \in Lookers |-> IdleLooker]

InitLifecycle == InitRuns(1)

\* run() up to its loop: `self.is_running = True`
InvokeRun(r) ==
    /\ tasks[r].pc = "idle"
    /\ Cardinality({q \in Runs : tasks[q].pc # "idle"}) < run_calls
    /\ \A q \in Runs : q < r => tasks[q].pc # "idle"
    /\ CanRun(r)
    /\ is_running' = TRUE
    /\ tasks' = [tasks EXCEPT ![r].pc = "loop"]
    /\ UNCHANGED <<variant, batch_size, iteration, pc, graph_data, batch_results,
                   errors_logged, failed_step, failed_batch, window_before, exit_cause,
                   detectorVars, backendVars, run_calls, memory_size, memory, session,
                   logged, reports, appended, outcomes, lk>>

\* what a step of a task leaves alone besides the variables it names
CycleUnchanged ==
    UNCHANGED <<variant, batch_size, pc, graph_data, batch_results, errors_logged,
                failed_step, failed_batch, window_before, exit_cause, window_size,
                detect_result, limiterVars, cacheVars, last_call, run_calls, memory_size,
                lk>>

\* `while self.is_running:` found true, and `self.iteration += 1`
EnterCycle(r) ==
    /\ tasks[r].pc = "loop"
    /\ CanRun(r)
    /\ is_running
    /\ iteration < IterationCap
    /\ iteration' = iteration + 1
    /\ tasks' = [tasks EXCEPT ![r].pc = "snapshot",
                              ![r].graph_data = IdleTask.graph_data,
                              ![r].view = NoView,
                              ![r].mutated = FALSE]
    /\ CycleUnchanged
    /\ UNCHANGED <<is_running, window, G, memory, session, logged, reports, appended,
                   outcomes>>

\* `while self.is_running:` found false: on to the finally clause
LeaveLoop(r) ==
    /\ tasks[r].pc = "loop"
    /\ CanRun(r)
    /\ ~is_running
    /\ tasks' = [tasks EXCEPT ![r].pc = "cleanup", ![r].cause = "flag_cleared"]
    /\ CycleUnchanged
    /\ UNCHANGED <<is_running, iteration, window, G, memory, session, logged, reports,
                   appended, outcomes>>

\* Step 1: _get_graph_snapshot
CycleSnapshot(r) ==
    /\ tasks[r].pc = "snapshot"
    /\ CanRun(r)
    /\ \E g \in CycleGraphs :
          tasks' = [tasks EXCEPT ![r].pc = "process", ![r].graph_data = g]
    /\ CycleUnchanged
    /\ UNCHANGED <<is_running, iteration, window, G, memory, session, logged, reports,
                   appended, outcomes>>

\* Step 2: process_graph, which updates the detector's window with the scores
CycleProcess(r) ==
    /\ tasks[r].pc = "process"
    /\ CanRun(r)
    /\ window' = update(window, tasks[r].graph_data.scores, window_size)
    /\ tasks' = [tasks EXCEPT ![r].pc = "analyze", ![r].mutated = TRUE]
    /\ CycleUnchanged
    /\ UNCHANGED <<is_running, iteration, G, memory, session, logged, reports,
                   appended, outcomes>>

\* Step 3: _analyze_batch_results, which reads the node metrics and the
\* vulnerable paths off the graph analyzer's view
CycleAnalyze(r) ==
    /\ tasks[r].pc = "analyze"
    /\ CanRun(r)
    /\ tasks' = [tasks EXCEPT ![r].pc = "update_graph", ![r].view = G]
    /\ CycleUnchanged
    /\ UNCHANGED <<is_running, iteration, window, G, memory, session, logged, reports,
                   appended, outcomes>>

\* Step 4: graph_analyzer.update_graph(edge_index, num_nodes); the task then
\* runs into the request of step 5
CycleUpdateGraph(r) ==
    /\ tasks[r].pc = "update_graph"
    /\ CanRun(r)
    /\ G' = update_graph(tasks[r].graph_data.edges, tasks[r].graph_data.num_nodes)
    /\ tasks' = [tasks EXCEPT ![r].pc = "reason"]
    /\ CycleUnchanged
    /\ UNCHANGED <<is_running, iteration, window, memory, session, logged, reports,
                   appended, outcomes>>

\* Step 5: _agent_reasoning; the request of llm_client.generate, made on a
\* session that _get_session opens when there is none, has returned
CycleReason(r) ==
    /\ tasks[r].pc = "reason"
    /\ CanRun(r)
    /\ session' = "open"
    /\ tasks' = [tasks EXCEPT ![r].pc = "act"]
    /\ CycleUnchanged
    /\ UNCHANGED <<is_running, iteration, window, G, memory, logged, reports, appended,
                   outcomes>>

\* Step 6: _take_actions
CycleAct(r) ==
    /\ tasks[r].pc = "act"
    /\ CanRun(r)
    /\ tasks' = [tasks EXCEPT ![r].pc = "memory"]
    /\ CycleUnchanged
    /\ UNCHANGED <<is_running, iteration, window, G, memory, session, logged, reports,
                   appended, outcomes>>

\* Step 7: _update_memory appends an entry with `'iteration': self.iteration`
CycleUpdateMemory(r) ==
    /\ tasks[r].pc = "memory"
    /\ CanRun(r)
    /\ memory' = memory_append(memory, iteration, memory_size)
    /\ appended' = Append(appended, iteration)
    /\ tasks' = [tasks EXCEPT ![r].pc = "report"]
    /\ CycleUnchanged
    /\ UNCHANGED <<is_running, iteration, window, G, session, logged, reports, outcomes>>

\* Step 8: _generate_report; the cycle is over and run() goes to sleep
CycleReport(r) ==
    /\ tasks[r].pc = "report"
    /\ CanRun(r)
    /\ reports' = Append(reports, [iteration |-> iteration,
                                   graph_data |-> tasks[r].graph_data,
                                   view |-> tasks[r].view])
    /\ outcomes' = Ended(r, "ok")
    /\ tasks' = [tasks EXCEPT ![r].pc = "sleep"]
    /\ CycleUnchanged
    /\ UNCHANGED <<is_running, iteration, window, G, memory, session, logged, appended>>

\* A step raises an Exception.  XAI-agentic's _monitor_cycle logs it and
\* returns; gnn-agent-monitor's lets it out to run(), which logs it and raises
\* it again through the finally clause.
CycleRaises(r) ==
    /\ tasks[r].pc \in CycleSteps
    /\ CanRun(r)
    /\ outcomes' = Ended(r, "failed")
    /\ IF variant = "xai"
       THEN /\ logged' = logged \cup {"cycle_error"}
            /\ tasks' = [tasks EXCEPT ![r].pc = "sleep"]
       ELSE /\ logged' = logged \cup {"fatal_error"}
            /\ tasks' = [tasks EXCEPT ![r].pc = "cleanup", ![r].cause = "Exception",
                                      ![r].stopped_at = tasks[r].pc]
    /\ CycleUnchanged
    /\ UNCHANGED <<is_running, iteration, window, G, memory, session, reports, appended>>

\* `await asyncio.sleep(self.config.UPDATE_INTERVAL)` returns
SleepReturns(r) ==
    /\ tasks[r].pc = "sleep"
    /\ CanRun(r)
    /\ tasks' = [tasks EXCEPT ![r].pc = "loop"]
    /\ CycleUnchanged
    /\ UNCHANGED <<is_running, iteration, window, G, memory, session, logged, reports,
                   appended, outcomes>>

\* the holder of the agent clears the flag the loop tests
ClearFlag ==
    /\ is_running
    /\ \E r \in Runs : tasks[r].pc \notin {"idle", "cleanup", "exited"}
    /\ is_running' = FALSE
    /\ CycleUnchanged
    /\ UNCHANGED <<tasks, iteration, window, G, memory, session, logged, reports,
                   appended, outcomes>>

\* A KeyboardInterrupt is raised in the code of run() or of a step: no
\* `except Exception` catches it, run()'s `except KeyboardInterrupt` does.
KeyboardInterrupt(r) ==
    /\ tasks[r].pc \in (CycleSteps \cup {"loop"}) \ AwaitPoints
    /\ CanRun(r)
    /\ is_running' = FALSE
    /\ logged' = logged \cup {"stopped_by_user"}
    /\ outcomes' = IF tasks[r].pc \in CycleSteps THEN Ended(r, "abandoned") ELSE outcomes
    /\ tasks' = [tasks EXCEPT ![r].pc = "cleanup", ![r].cause = "KeyboardInterrupt",
                              ![r].stopped_at = tasks[r].pc]
    /\ CycleUnchanged
    /\ UNCHANGED <<iteration, window, G, memory, session, reports, appended>>

\* The task of run() is cancelled: CancelledError is raised at the await it
\* is suspended in, which neither `except` of run() and no `except Exception`
\* catches.
Cancelled(r) ==
    /\ tasks[r].pc \in AwaitPoints
    /\ outcomes' = IF tasks[r].pc \in CycleSteps THEN Ended(r, "abandoned") ELSE outcomes
    /\ tasks' = [tasks EXCEPT ![r].pc = "cleanup", ![r].cause = "CancelledError",
                              ![r].stopped_at = tasks[r].pc]
    /\ CycleUnchanged
    /\ UNCHANGED <<is_running, iteration, window, G, memory, session, logged, reports,
                   appended>>

\* `finally: await self._cleanup()`, llm_client.close() returning; run() then
\* returns or passes its exception on
CleanupCloses(r) ==
    /\ tasks[r].pc = "cleanup"
    /\ CanRun(r)
    /\ session' = close(session)
    /\ logged' = logged \cup {"cleaned_up"}
    /\ tasks' = [tasks EXCEPT ![r].pc = "exited", ![r].outcome = exit_of(tasks[r].cause)]
    /\ CycleUnchanged
    /\ UNCHANGED <<is_running, iteration, window, G, memory, reports, appended, outcomes>>

\* `finally: await self._cleanup()`, the session's close raising an Exception,
\* which _cleanup logs
CleanupRaises(r) ==
    /\ tasks[r].pc = "cleanup"
    /\ CanRun(r)
    /\ session = "open"
    /\ logged' = logged \cup {"cleanup_error"}
    /\ tasks' = [tasks EXCEPT ![r].pc = "exited", ![r].outcome = exit_of(tasks[r].cause),
                              ![r].cleanup_failed = TRUE]
    /\ CycleUnchanged
    /\ UNCHANGED <<is_running, iteration, window, G, memory, session, reports, appended,
                   outcomes>>

NextLifecycle ==
    \/ \E r \in Runs :
          \/ InvokeRun(r)
          \/ EnterCycle(r)
          \/ LeaveLoop(r)
          \/ CycleSnapshot(r)
          \/ CycleProcess(r)
          \/ CycleAnalyze(r)
          \/ CycleUpdateGraph(r)
          \/ CycleReason(r)
          \/ CycleAct(r)
          \/ CycleUpdateMemory(r)
          \/ CycleReport(r)
          \/ CycleRaises(r)
          \/ SleepReturns(r)
          \/ KeyboardInterrupt(r)
          \/ Cancelled(r)
          \/ CleanupCloses(r)
          \/ CleanupRaises(r)
    \/ ClearFlag

SpecLifecycle == InitLifecycle /\ [][NextLifecycle]_vars

\* run() invoked again while an earlier invocation is still in its loop
InitReentrant == InitRuns(2)

SpecReentrant == InitReentrant /\ [][NextLifecycle]_vars

\* ------------------------------------- lookups of one CVE by several threads
\* get_cve_score_from_nvd followed statement by statement through
\* SimpleCache.get and SimpleCache.set, which take no lock; the threads look
\* the same CVE up.
RaceKey == cve_cache_key(CHOOSE id \in CveIds : TRUE)
RaceCve == CHOOSE id \in CveIds : TRUE

\* what the NVD may do for the lookups of the threads
RaceReplies ==
    {[kind |-> "response", status |-> 200, totalResults |-> 1,
      metrics |-> ("cvssMetricV31" :> [baseScore |-> 98, baseSeverity |-> "CRITICAL"])],
     [kind |-> "timeout", status |-> 0, totalResults |-> 0, metrics |-> EmptyDict]}

RaceUnchanged ==
    UNCHANGED <<agentVars, detectorVars, analysisVars, lifecycleVars, rl, calls_started,
                cve_cache, last_query, last_lookup, lookups, node_to_software,
                CVE_DETAILS_CACHE>>

\* get_cve_score_from_nvd is entered
RaceBegin(c) ==
    /\ lk[c].pc = "idle"
    /\ lk[c].calls < MaxRaceLookups
    /\ lk' = [lk EXCEPT ![c].pc = "get", ![c].calls = lk[c].calls + 1,
                        ![c].value = NoResult, ![c].ttl = 0, ![c].raised = FALSE]
    /\ RaceUnchanged
    /\ UNCHANGED <<_cache, _expiry, now, api_call_times, admitted, external_calls>>

\* SimpleCache.get: `if key in self._cache:` and the test of the expiry
RaceGet(c) ==
    /\ lk[c].pc = "get"
    /\ lk' = [lk EXCEPT ![c].pc =
                 IF RaceKey \notin DOMAIN _cache THEN "query"
                 ELSE IF RaceKey \in DOMAIN _expiry /\ now > _expiry[RaceKey]
                 THEN "del_cache"
                 ELSE "read"]
    /\ RaceUnchanged
    /\ UNCHANGED <<_cache, _expiry, now, api_call_times, admitted, external_calls>>

\* SimpleCache.get: `return self._cache[key]`, a KeyError if the key has gone
RaceRead(c) ==
    /\ lk[c].pc = "read"
    /\ IF RaceKey \in DOMAIN _cache
       THEN lk' = [lk EXCEPT ![c].pc = "idle", ![c].value = _cache[RaceKey]]
       ELSE lk' = [lk EXCEPT ![c].pc = "idle", ![c].raised = TRUE]
    /\ RaceUnchanged
    /\ UNCHANGED <<_cache, _expiry, now, api_call_times, admitted, external_calls>>

\* SimpleCache.get, the entry expired: `del self._cache[key]`
RaceDelCache(c) ==
    /\ lk[c].pc = "del_cache"
    /\ IF RaceKey \in DOMAIN _cache
       THEN /\ _cache' = Drop(_cache, RaceKey)
            /\ lk' = [lk EXCEPT ![c].pc = "del_expiry"]
       ELSE /\ _cache' = _cache
            /\ lk' = [lk EXCEPT ![c].pc = "idle", ![c].raised = TRUE]
    /\ RaceUnchanged
    /\ UNCHANGED <<_expiry, now, api_call_times, admitted, external_calls>>

\* SimpleCache.get, the entry expired: `del self._expiry[key]` and `return None`
RaceDelExpiry(c) ==
    /\ lk[c].pc = "del_expiry"
    /\ IF RaceKey \in DOMAIN _expiry
       THEN /\ _expiry' = Drop(_expiry, RaceKey)
            /\ lk' = [lk EXCEPT ![c].pc = "query"]
       ELSE /\ _expiry' = _expiry
            /\ lk' = [lk EXCEPT ![c].pc = "idle", ![c].raised = TRUE]
    /\ RaceUnchanged
    /\ UNCHANGED <<_cache, now, api_call_times, admitted, external_calls>>

\* the miss: rate_limit_check and the request; the record to store and its
\* TTL are those of the reply
RaceQuery(c) ==
    /\ lk[c].pc = "query"
    /\ \E reply \in RaceReplies :
          lk' = [lk EXCEPT ![c].pc = "set_cache",
                           ![c].value = IF Found(reply)
                                        THEN nvd_result(RaceCve, reply.metrics)
                                        ELSE default_result(RaceCve),
                           ![c].ttl = IF Found(reply) THEN CVE_CACHE_TTL
                                      ELSE FAILED_LOOKUP_TTL]
    /\ LET lim == rate_limit_check(api_call_times, now)
       IN  /\ api_call_times' = lim.times
           /\ now' = lim.now
           /\ admitted' = Append(recent_calls(admitted, lim.now), lim.now)
    /\ external_calls' = external_calls + 1
    /\ RaceUnchanged
    /\ UNCHANGED <<_cache, _expiry>>

\* SimpleCache.set: `self._cache[key] = value`
RaceSetCache(c) ==
    /\ lk[c].pc = "set_cache"
    /\ _cache' = (RaceKey :> lk[c].value) @@ _cache
    /\ lk' = [lk EXCEPT ![c].pc = "set_expiry"]
    /\ RaceUnchanged
    /\ UNCHANGED <<_expiry, now, api_call_times, admitted, external_calls>>

\* SimpleCache.set: `self._expiry[key] = time.time() + ttl`, and the return
RaceSetExpiry(c) ==
    /\ lk[c].pc = "set_expiry"
    /\ _expiry' = (RaceKey :> (now + lk[c].ttl)) @@ _expiry
    /\ lk' = [lk EXCEPT ![c].pc = "idle", ![c].wrote = TRUE,
                        ![c].written = lk[c].value, ![c].expiry = now + lk[c].ttl]
    /\ RaceUnchanged
    /\ UNCHANGED <<_cache, now, api_call_times, admitted, external_calls>>

\* time passes between the lookups
RaceTimePasses ==
    /\ \A c \in Lookers : lk[c].pc = "idle"
    /\ \E d \in LookupSteps :
          /\ now + d <= MaxRaceTime
          /\ now' = now + d
          /\ admitted' = recent_calls(admitted, now + d)
    /\ RaceUnchanged
    /\ UNCHANGED <<_cache, _expiry, api_call_times, external_calls, lk>>

NextRace ==
    \/ \E c \in Lookers :
          \/ RaceBegin(c)
          \/ RaceGet(c)
          \/ RaceRead(c)
          \/ RaceDelCache(c)
          \/ RaceDelExpiry(c)
          \/ RaceQuery(c)
          \/ RaceSetCache(c)
          \/ RaceSetExpiry(c)
    \/ RaceTimePasses

SpecRace == InitBackend /\ [][NextRace]_vars

\* ================================================================ claims
\* the score vector and the anomaly set a cycle has produced
CycleScores == IF batch_results.kind = "ok" THEN batch_results.scores ELSE <<>>
CycleAnomalies == IF batch_results.kind = "ok" THEN batch_results.anomalous_nodes ELSE {}

\* C1: the score vector process_graph returns holds exactly one score per
\* node of the snapshot, whatever the batch size.
C1_ScoreVectorLength ==
    batch_results.kind = "ok" => Len(batch_results.scores) = graph_data.num_nodes

\* C2: the concatenated score vector is, entry by entry in ascending node-id
\* order, the reconstruction error of the snapshot's nodes.
C2_ScoresInNodeOrder ==
    batch_results.kind = "ok" =>
        batch_results.scores = compute_anomaly_scores(graph_data.x, batch_results.x_recon)

\* C7: when a step of a monitoring cycle raises, run() stays in its loop: the
\* failure is logged, the loop sleeps and goes on to the next cycle.
C7_CycleFailureKeepsLoop ==
    failed_step # "none" =>
        /\ pc \in {"sleep", "loop", "snapshot"}
        /\ exit_cause = "none"
        /\ errors_logged > 0

\* C8: when the scorer raises in any batch, the window is exactly as it was
\* when the cycle started, and the cycle has no score vector and no anomaly.
C8_ScorerFailureLeavesWindow ==
    failed_step = "score" =>
        /\ window = window_before
        /\ CycleScores = <<>>
        /\ CycleAnomalies = {}

\* the scorer raised in a batch after the first, with scores in the window
C8_Witness ==
    /\ failed_step = "score"
    /\ failed_batch >= 2
    /\ window # <<>>

C10_ZeroVarianceFlagsNothing ==
    (detect_result.kind = "ok" /\ window # <<>> /\ VarTerm(window) = 0) =>
        Where(detect_result.anomalies) = {}

\* C3: no interval of RATE_LIMIT_WINDOW seconds holds more than
\* RATE_LIMIT_CALLS calls let through by rate_limit_check, calls that had to
\* wait included.
C3_AtMostLimitPerWindow ==
    Len(admitted) <= RATE_LIMIT_CALLS

\* C6: a call of rate_limit_check that finds the window full sleeps and then
\* goes on: every call returns, and a returned call has recorded exactly one
\* entry in the history.
C6_EveryCallReturns ==
    /\ \A c \in Callers : (rl[c].pc # "idle") ~> (rl[c].pc = "idle")
    /\ [](\A c \in Callers :
             (rl[c].pc = "idle" /\ rl[c] # IdleCaller) => rl[c].appends = 1)

\* a call that found the window full, slept, and has returned
C6_Witness ==
    \E c \in Callers :
        /\ rl[c].pc = "idle"
        /\ rl[c].wake > 0
        /\ rl[c].appends = 1
        /\ now >= rl[c].wake

\* the TTL the entry a lookup wrote is kept for
TtlOf(q) == IF q.failed THEN FAILED_LOOKUP_TTL ELSE CVE_CACHE_TTL

\* C4: a lookup made while the entry written by the last querying lookup of
\* the same key is within its TTL returns that entry's value, queries nothing
\* and takes no limiter slot, whether that lookup succeeded or failed; a
\* lookup made after the TTL has elapsed is a miss that queries again.
C4_LookupWithinTtlIsCached ==
    (last_lookup.kind = "ok" /\ last_lookup.prior.kind = "query") =>
        LET q == last_lookup.prior
        IN  /\ last_lookup.at < q.at + TtlOf(q) =>
                  /\ last_lookup.hit
                  /\ last_lookup.external = 0
                  /\ ~last_lookup.slot
                  /\ last_lookup.value = q.value
            /\ last_lookup.at > q.at + TtlOf(q) =>
                  /\ ~last_lookup.hit
                  /\ last_lookup.external = 1

\* the entry the caches hold for a key, with the time it expires at
EntryOf(key) ==
    IF key \in DOMAIN _cache
    THEN [kind |-> "entry", value |-> [type |-> "record", record |-> _cache[key]],
          expires |-> _expiry[key]]
    ELSE IF key \in DOMAIN cve_cache
    THEN [kind |-> "entry", value |-> [type |-> "list", list |-> cve_cache[key].data],
          expires |-> cve_cache[key].timestamp + cache_timeout]
    ELSE NoResult

IsFallback(v) ==
    /\ v.type = "record"
    /\ v.record.score = 50
    /\ v.record.severity = "MEDIUM"

\* C5: a lookup whose external query failed does not raise, returns the
\* fallback record (5.0, MEDIUM), and leaves that record in the cache under
\* its key for FAILED_LOOKUP_TTL seconds.
C5_FailedLookupFallsBack ==
    (last_lookup.kind = "ok" /\ last_lookup.failed) =>
        /\ ~last_lookup.raised
        /\ IsFallback(last_lookup.value)
        /\ EntryOf(last_lookup.key).kind = "entry"
        /\ IsFallback(EntryOf(last_lookup.key).value)
        /\ EntryOf(last_lookup.key).expires = now + FAILED_LOOKUP_TTL

\* the caller of the last threshold call supplied a threshold that is used
Supplied(c) == c.passed.given /\ c.passed.value # 0

IsPathOf(g, p) ==
    /\ \A i \in 1..Len(p) : p[i] \in g.nodes
    /\ \A i \in 1..(Len(p) - 1) : {p[i], p[i + 1]} \in g.edges

\* C12: find_vulnerable_paths returns at most top_k entries in ascending
\* order of length, each a path of the current view from its source to its
\* target; it raises nothing.
C12_VulnerablePathsAreReal ==
    (last_call.kind = "ok" /\ last_call.fn = "find_vulnerable_paths") =>
        LET paths == last_call.paths
        IN  /\ ~last_call.raised
            /\ Len(paths) <= last_call.top_k
            /\ \A i \in 1..(Len(paths) - 1) : paths[i].length <= paths[i + 1].length
            /\ \A i \in 1..Len(paths) :
                  /\ G.built
                  /\ IsPathOf(G, paths[i].path)
                  /\ paths[i].length = Len(paths[i].path)
                  /\ paths[i].path[1] = paths[i].source
                  /\ paths[i].path[Len(paths[i].path)] = paths[i].target

\* a call whose loops found more paths than top_k
C12_Witness ==
    /\ last_call.kind = "ok"
    /\ last_call.fn = "find_vulnerable_paths"
    /\ G.built
    /\ Len(last_call.paths) = last_call.top_k
    /\ LET nodes == Prefix(last_call.anomalous_nodes, last_call.top_k)
       IN  Len(CollectPaths(G, nodes, PairsFrom(1, 2, Len(nodes)), "low"))
               > last_call.top_k

\* C13: analyze_node_importance for a node that is not in the view, or before
\* any view was built, returns degree 0, betweenness 0, clustering 0 and no
\* neighbour, raises nothing and leaves the view as it was.
C13_AbsentNodeZeroMetrics ==
    (/\ last_call.kind = "ok"
     /\ last_call.fn = "analyze_node_importance"
     /\ (~last_call.view_before.built \/ last_call.node_id \notin last_call.view_before.nodes)) =>
        /\ ~last_call.raised
        /\ last_call.metrics.degree = 0
        /\ last_call.metrics.betweenness.num = 0
        /\ last_call.metrics.clustering.num = 0
        /\ last_call.metrics.neighbors = {}
        /\ G = last_call.view_before

\* a call for a node id that the built view does not hold
C13_Witness ==
    /\ last_call.kind = "ok"
    /\ last_call.fn = "analyze_node_importance"
    /\ G.built
    /\ G.edges # {}
    /\ last_call.node_id \notin G.nodes

\* the analysis step of a cycle has returned
AnalysisDone == last_call.kind = "ok" /\ last_call.fn = "_analyze_batch_results"

\* C14: the per-node details of a report are at most 20, they are in descending
\* order of anomaly score, and no anomalous node left out of them has a higher
\* score than one that is in them
C14_DetailsAreTopScoresDescending ==
    AnalysisDone =>
        LET d == last_call.node_details
            detailed == {d[i].node_id : i \in 1..Len(d)}
        IN  /\ Len(d) <= DetailLimit
            /\ \A i \in 1..(Len(d) - 1) : d[i].anomaly_score >= d[i + 1].anomaly_score
            /\ \A node \in Ids(last_call.used) \ detailed : \A i \in 1..Len(d) :
                  d[i].anomaly_score >= batch_results.scores[node + 1]

\* C15: every id the analysis counts, details, hands to the path search or to
\* the CVE correlation is an id of the snapshot, and the count is the number
\* of flagged ids of the snapshot
C15_UsedIdsAreSnapshotIds ==
    AnalysisDone =>
        LET n == graph_data.num_nodes
            d == last_call.node_details
        IN  /\ \A id \in Ids(last_call.used) \cup Ids(last_call.path_nodes)
                        \cup Ids(last_call.cve_nodes)
                        \cup {d[i].node_id : i \in 1..Len(d)} : 0 <= id /\ id < n
            /\ last_call.anomalous_nodes
                  = Cardinality({id \in batch_results.anomalous_nodes : id < n})

\* analyze_anomalous_nodes has returned
CorrelateDone == last_call.kind = "ok" /\ last_call.fn = "analyze_anomalous_nodes"

\* the number of records of a tier in a list of CVE records
TierCount(cves, tier) ==
    Cardinality({i \in 1..Len(cves) : cves[i].severity = tier})

\* the correlation of the nodes `correlated` is what the call returned: every
\* one of them was searched, and the totals and the mapping are those of the
\* lists the searches returned
CorrelationOf(c, correlated) ==
    LET r == c.intelligence
        order == Ascending(DOMAIN r.searched)
        matched(n) == r.searched[n]
    IN  /\ DOMAIN r.searched = correlated
        /\ r.total_cves_found = SumSeq([i \in 1..Len(order) |-> Len(matched(order[i]))])
        /\ Len(r.critical_cves)
              = SumSeq([i \in 1..Len(order) |-> TierCount(matched(order[i]), "CRITICAL")])
        /\ Len(r.high_cves)
              = SumSeq([i \in 1..Len(order) |-> TierCount(matched(order[i]), "HIGH")])
        /\ DOMAIN r.node_cve_mapping = {n \in correlated : Len(matched(n)) > 0}
        /\ \A n \in DOMAIN r.node_cve_mapping : r.node_cve_mapping[n] = matched(n)
        /\ DOMAIN r.node_cve_mapping \subseteq DOMAIN c.registry

Tier(score) ==
    IF score >= 90 THEN "CRITICAL"
    ELSE IF score >= 70 THEN "HIGH"
    ELSE IF score >= 40 THEN "MEDIUM"
    ELSE "LOW"

\* a record that carries CVSS data or is a fallback has the tier of its score
TierOfScore(r) == r.severity # "UNKNOWN" => r.severity = Tier(r.score)

\* C17: the severity of every CVE record a lookup returns, from the NVD or as
\* a fallback, is the tier of the record's score (a record the NVD has no CVSS
\* data for, which is labelled UNKNOWN with the score 0.0, is left aside)
C17_TierFromScore ==
    last_lookup.kind = "ok" =>
        IF last_lookup.value.type = "record"
        THEN TierOfScore(last_lookup.value.record)
        ELSE \A i \in 1..Len(last_lookup.value.list) :
                TierOfScore(last_lookup.value.list[i])

\* a risk calculation has returned
RiskDone ==
    last_call.kind = "ok" /\ last_call.fn \in {"compute_cve_risk_score", "process_and_emit"}

\* the scores among `looked` that are more than 0
PositiveScores(looked) == LET Positive(score) == score > 0 IN SelectSeq(looked, Positive)

\* risk is the weighted mean of the scores, and lies between the least and
\* the greatest of them
IsWeightedMeanOf(risk, scores) ==
    LET ws == SumSeq([i \in 1..Len(scores) |-> scores[i] * Weight(scores[i])])
        wc == SumSeq([i \in 1..Len(scores) |-> Weight(scores[i])])
    IN  /\ risk.num * wc = ws * risk.den
        /\ \E i \in 1..Len(scores) : scores[i] * risk.den <= risk.num
        /\ \E i \in 1..Len(scores) : risk.num <= scores[i] * risk.den

\* C18: compute_cve_risk_score returns 0 if no CVE of the list has a score
\* above 0 (so for the empty list), and otherwise the weighted mean of the
\* scores above 0, which is within [0, 10] and between the least and the
\* greatest of these scores
C18_WeightedMeanOfPositiveScores ==
    RiskDone =>
        LET scores == PositiveScores(last_call.looked)
            risk == last_call.cve_risk
        IN  /\ Len(last_call.looked) = Len(last_call.all_cves)
            /\ risk.den > 0 /\ 0 <= risk.num /\ risk.num <= 100 * risk.den
            /\ IF Len(scores) = 0 THEN risk.num = 0
               ELSE IsWeightedMeanOf(risk, scores)

\* a CVE of 9.0 or more and one below are averaged
C18_Witness ==
    /\ RiskDone
    /\ last_call.fn = "compute_cve_risk_score"
    /\ \E i, j \in 1..Len(last_call.looked) :
          last_call.looked[i] >= 90 /\ last_call.looked[j] > 0 /\ last_call.looked[j] < 90

\* C18 as stated: 0 for the empty list and otherwise the weighted mean of the
\* scores of all the CVEs of the list
C18_WeightedMeanOfAllScores ==
    RiskDone =>
        IF Len(last_call.all_cves) = 0 THEN last_call.cve_risk.num = 0
        ELSE IsWeightedMeanOf(last_call.cve_risk, last_call.looked)

\* a <= b for two quotients
Leq(a, b) == a.num * b.den <= b.num * a.den

\* the CVE risks and the behavioural risks a node can have
CveRisks ==
    {Zero} \cup {weighted_mean(scores) : scores \in {<<35>>, <<50>>, <<75>>, <<98>>,
                                                     <<35, 98>>, <<75, 98>>, <<50, 35>>}}
BehavioralRisks == {compute_node_risk(attrs) : attrs \in NodeAttrs}

\* C19: a node's combined score is 0.3 * behavioural + 0.7 * CVE risk, and a
\* higher CVE risk with the same behavioural risk, or a higher behavioural risk
\* with the same CVE risk, never gives a lower combined score
C19_CombinedScoreMonotone ==
    (last_call.kind = "ok" /\ last_call.fn = "process_and_emit") =>
        LET c == last_call.cve_risk
            b == last_call.behavioral_risk
            risk == last_call.risk
        IN  /\ risk.den > 0
            /\ risk.num * 10 * c.den = (3 * b * c.den + 7 * c.num) * risk.den
            /\ \A c2 \in CveRisks :
                  /\ Leq(c, c2) => Leq(risk, combined_risk(c2, b))
                  /\ Leq(c2, c) => Leq(combined_risk(c2, b), risk)
            /\ \A b2 \in BehavioralRisks :
                  /\ b <= b2 => Leq(risk, combined_risk(c, b2))
                  /\ b2 <= b => Leq(combined_risk(c, b2), risk)

\* a node with both risks above 0 and different from each other
C19_Witness ==
    /\ last_call.kind = "ok" /\ last_call.fn = "process_and_emit"
    /\ last_call.cve_risk.num > 0
    /\ last_call.behavioral_risk > 0
    /\ last_call.cve_risk.num # last_call.behavioral_risk * last_call.cve_risk.den

\* the window's updates so far
WindowUpdated == last_call.kind = "ok" /\ last_call.fn = "update"

\* C20: after any updates the window holds at most window_size scores, and
\* they are the last scores appended, in the order in which they arrived
C20_WindowKeepsNewest ==
    /\ Len(window) <= window_size
    /\ WindowUpdated =>
          /\ Len(window) = Min(Len(last_call.arrived), window_size)
          /\ \A i \in 1..Len(window) :
                window[i] = last_call.arrived[Len(last_call.arrived) - Len(window) + i]

\* a full window has been updated with a vector longer than itself, and what
\* was evicted differs from what was kept
C20_Witness ==
    /\ WindowUpdated
    /\ Len(last_call.window_before) = window_size
    /\ Len(last_call.scores) > window_size
    /\ window # SubSeq(last_call.arrived, 1, Len(window))
    /\ window # last_call.window_before

\* ------------------------------------------------- run, stop and cleanup
\* the iterations of the cycles that ran all their steps, in the order the
\* cycles ended
RECURSIVE CompletedIterations(_)
CompletedIterations(ended) ==
    IF ended = <<>> THEN <<>>
    ELSE (IF Head(ended).result = "ok" THEN <<Head(ended).iteration>> ELSE <<>>)
            \o CompletedIterations(Tail(ended))

\* no invocation of run() is inside a cycle
BetweenCycles == \A r \in Runs : tasks[r].pc \notin CycleSteps

StrictlyIncreasing(s) == \A i, j \in 1..Len(s) : i < j => s[i] < s[j]

C22_ClientClosedOnExit ==
    \A r \in Runs :
        tasks[r].pc = "exited" =>
            /\ session = "none" \/ tasks[r].cleanup_failed
            /\ tasks[r].cause \in {"Exception", "CancelledError"}
                  => tasks[r].outcome = tasks[r].cause
            /\ tasks[r].cause \in {"flag_cleared", "KeyboardInterrupt"}
                  => tasks[r].outcome = "returned"

\* run() was cancelled after a cycle had opened the session, and has closed it
C22_Witness ==
    \E r \in Runs :
        /\ tasks[r].pc = "exited"
        /\ tasks[r].cause = "CancelledError"
        /\ reports # <<>>
        /\ session = "none"
        /\ "cleaned_up" \in logged

\* C23: a stop or a cancellation requested during a cycle takes effect at the
\* next cycle boundary: no cycle is abandoned after it has updated the
\* detector's window.
C23_StopAtCycleBoundary ==
    \A i \in 1..Len(outcomes) :
        ~(outcomes[i].result = "abandoned" /\ outcomes[i].mutated)

\* the number of failed cycles the cycles ended so far end with
RECURSIVE TrailingFailures(_)
TrailingFailures(ended) ==
    IF ended = <<>> THEN 0
    ELSE IF ended[Len(ended)].result # "failed" THEN 0
    ELSE 1 + TrailingFailures(SubSeq(ended, 1, Len(ended) - 1))

\* C24: after three or more consecutive failed cycles a degraded-health
\* signal has been given, and run() has not let the failure out.
C24_DegradedHealthSignalled ==
    TrailingFailures(outcomes) >= 3 =>
        /\ "degraded_health" \in logged
        /\ \A r \in Runs : tasks[r].cause # "Exception"

\* C25: at most one monitoring cycle is in flight at any time, also when
\* run() is invoked while the agent is already running.
C25_OneCycleInFlight ==
    Cardinality({r \in Runs : tasks[r].pc \in CycleSteps}) <= 1

\* C26: when no invocation of run() is executing, is_running is false.
C26_IdleAfterExit ==
    (\A r \in Runs : tasks[r].pc \in {"idle", "exited"}) => ~is_running

\* C27: the node metrics and the paths of every report were read off the
\* view built from that cycle's snapshot.
C27_ReportDescribesItsSnapshot ==
    \A i \in 1..Len(reports) :
        reports[i].view = update_graph(reports[i].graph_data.edges,
                                       reports[i].graph_data.num_nodes)

\* C28: find_vulnerable_paths considers every pair of the supplied ids: the
\* shortest path of two supplied nodes that are connected in the view is in
\* the result, unless top_k paths that are not longer fill it, wherever the
\* two nodes stand in the list and however short their path is.
C28_EveryConnectedPairConsidered ==
    (last_call.kind = "ok" /\ last_call.fn = "find_vulnerable_paths" /\ G.built) =>
        LET nodes == last_call.anomalous_nodes
            paths == last_call.paths
        IN  \A i, j \in 1..Len(nodes) :
                (/\ i < j
                 /\ nodes[i] \in G.nodes
                 /\ nodes[j] \in G.nodes
                 /\ has_path(G, nodes[i], nodes[j])) =>
                    \/ \E k \in 1..Len(paths) :
                          /\ paths[k].source = nodes[i]
                          /\ paths[k].target = nodes[j]
                          /\ paths[k].length = distance(G, nodes[i], nodes[j]) + 1
                    \/ /\ Len(paths) = last_call.top_k
                       /\ \A k \in 1..Len(paths) :
                             paths[k].length <= distance(G, nodes[i], nodes[j]) + 1

\* how often t occurs in the sequence
Occurrences(times, t) == Len(SelectSeq(times, LAMBDA x : x = t))

\* C29: the history stays complete: the timestamp of every call let through
\* is in api_call_times for as long as the call is inside the window.
C29_HistoryComplete ==
    \A i \in 1..Len(admitted) :
        Occurrences(api_call_times, admitted[i]) >= Occurrences(admitted, admitted[i])

\* no thread is inside get_cve_score_from_nvd
Quiet == \A c \in Lookers : lk[c].pc = "idle"

\* C30: once lookups of one key that ran at the same time have returned, the
\* cache holds one whole entry, value and expiry written by the same
\* SimpleCache.set: the fallback record is not kept for 24 h nor a real record
\* for 1 h; and the expiry map holds no key the value map lacks.
C30_EntryFromOneWrite ==
    Quiet =>
        /\ DOMAIN _expiry \subseteq DOMAIN _cache
        /\ RaceKey \in DOMAIN _cache =>
              /\ RaceKey \in DOMAIN _expiry
              /\ \E c \in Lookers :
                    /\ lk[c].wrote
                    /\ lk[c].written = _cache[RaceKey]
                    /\ lk[c].expiry = _expiry[RaceKey]

====
